---- MODULE Spec2Model ----
(***************************************************************************)
(* A model of the Agent class of agent-builder: the keyed provider         *)
(* collection (addProvider / setProvider / deleteProvider / setOutput) and *)
(* the asynchronous render of the providers into the system and prompt     *)
(* text (executeProviders, prompt, system); processOutput, which coerces   *)
(* the text of the model to a declared shape; the keyed action collection  *)
(* and execute(); and the execute function of the default reply action.    *)
(*                                                                         *)
(* Text is modelled as a sequence of tokens (pieces of text); joining,     *)
(* heading prefixes and the end marker are computed on these sequences the *)
(* way the code computes them on strings.                                  *)
(***************************************************************************)
EXTENDS Integers, Sequences, FiniteSets, TLC

VARIABLES
    providers,    \* Agent.providers: the Map, as its entries in insertion order
    outputShape,  \* Agent.outputShape: a shape, or null
    settings,     \* Agent.settings (endPromptString)
    thrown,       \* the error thrown by the last registry call, or NoError
    last,         \* history: the last call made on the agent and what it found
    rPhase,       \* where the render in flight stands
    rSel,         \* filteredProviders (after the sort), with registration position
    rInvoked,     \* how many producers the map callback has invoked
    rResults,     \* the results array of Promise.all, one slot per position
    rOutcome,     \* history: how the producer of each selected provider settled
    rCompleted,   \* history: the positions of the settled producers, as they settled
    rRet,         \* the value the render returned
    oShape,       \* processOutput: the shapeDescriptor argument
    oText,        \* processOutput: the jsonString argument
    oDoc,         \* history: the JSON text the jsonString was made from
    oPc,          \* processOutput: where the call stands
    oJson,        \* processOutput: extractedJson
    oParsed,      \* processOutput: parsedData
    oIdx,         \* processOutput: how many fields of the shape the loop has passed
    oResult,      \* processOutput: result, its entries in insertion order
    oThrown,      \* processOutput: the error thrown, or NoThrow
    actions,      \* Agent.actions: the Map, as its entries in insertion order
    xPc,          \* execute(): where the run stands
    xQueue,       \* execute(): enabledActions (after the sort), with registration position
    xIdx,         \* execute(): how many actions the loop has passed
    xResults,     \* execute(): actionResults, its entries in insertion order
    xStart,       \* history: the actions Map as it was when execute() started
    xLog,         \* history: the invocations and settlements of operations, in order
    xChanges,     \* history: how many calls changed the actions Map during the run
    xProviders,   \* history: the providers Map as it was when execute() started
    replyEnabled, \* src/actions: replyAction.enabled, of the one object of the module
    replyPc,      \* replyAction.execute: where the call stands
    rawResponse,  \* replyAction.execute: rawResponse
    replyResult   \* replyAction.execute: the value returned

vars == <<providers, outputShape, settings, thrown, last,
          rPhase, rSel, rInvoked, rResults, rOutcome, rCompleted, rRet,
          oShape, oText, oDoc, oPc, oJson, oParsed, oIdx, oResult, oThrown,
          actions, xPc, xQueue, xIdx, xResults, xStart, xLog, xChanges,
          xProviders, replyEnabled, replyPc, rawResponse, replyResult>>

registry == <<providers, outputShape, settings, thrown, last>>
renderVars == <<rPhase, rSel, rInvoked, rResults, rOutcome, rCompleted, rRet>>
agentVars == <<registry, renderVars>>
outputVars == <<oShape, oText, oDoc, oPc, oJson, oParsed, oIdx, oResult, oThrown>>
replyVars == <<replyPc, rawResponse, replyResult>>
executeVars == <<actions, xPc, xQueue, xIdx, xResults, xStart, xLog, xChanges,
                 xProviders, replyEnabled, replyVars>>

----------------------------------------------------------------------------
(* Bounds *)

\* The provider collection holds at most this many entries.
MaxProviders == 3

----------------------------------------------------------------------------
(* Values *)

\* JavaScript's undefined (an absent optional field, an absent argument).
Undefined == "<undefined>"

\* An optional text: the no-content value, or a text.
None == [some |-> FALSE, v |-> <<>>]
Some(s) == [some |-> TRUE, v |-> s]

\* A provider's order: a finite number or one of the two infinities.
Num(n) == [inf |-> 0, n |-> n]
NEGATIVE_INFINITY == [inf |-> -1, n |-> 0]
POSITIVE_INFINITY == [inf |-> 1, n |-> 0]

\* The order setOutput passes to outputProvider and outputReminder.
OutputOrder == 100

\* a.order - b.order in IEEE arithmetic, by sign: "neg", "zero", "pos", or "nan"
\* (the difference of two equal infinities).
OrderDiff(a, b) ==
    IF a.inf # 0 /\ b.inf = a.inf THEN "nan"
    ELSE IF a.inf # 0 THEN (IF a.inf < 0 THEN "neg" ELSE "pos")
    ELSE IF b.inf # 0 THEN (IF b.inf < 0 THEN "pos" ELSE "neg")
    ELSE IF a.n < b.n THEN "neg"
    ELSE IF a.n > b.n THEN "pos"
    ELSE "zero"

----------------------------------------------------------------------------
(* Text *)

\* s ends with suffix.
EndsWith(s, suffix) ==
    /\ Len(suffix) <= Len(s)
    /\ SubSeq(s, Len(s) - Len(suffix) + 1, Len(s)) = suffix

\* sub occurs in s.
Contains(s, sub) ==
    \E i \in 0..(Len(s) - Len(sub)) : SubSeq(s, i + 1, i + Len(sub)) = sub

\* The first place at which sub occurs in s (String.indexOf), 0 when it does not.
IndexOf(s, sub) ==
    IF Contains(s, sub)
    THEN CHOOSE i \in 1..(Len(s) - Len(sub) + 1) :
            /\ SubSeq(s, i, i + Len(sub) - 1) = sub
            /\ \A j \in 1..(i - 1) : SubSeq(s, j, j + Len(sub) - 1) # sub
    ELSE 0

\* Array.prototype.join of texts with a separator text.
RECURSIVE JoinTexts(_, _)
JoinTexts(texts, sep) ==
    IF Len(texts) = 0 THEN <<>>
    ELSE IF Len(texts) = 1 THEN texts[1]
    ELSE texts[1] \o sep \o JoinTexts(Tail(texts), sep)

\* Array.prototype.filter(x => x !== undefined) on optional texts, unwrapped.
RECURSIVE Defined(_)
Defined(items) ==
    IF Len(items) = 0 THEN <<>>
    ELSE IF Head(items).some THEN <<Head(items).v>> \o Defined(Tail(items))
    ELSE Defined(Tail(items))

\* utils joinWithNewlines: the defined items joined by a blank line.
joinWithNewlines(items) == JoinTexts(Defined(items), <<"\n\n">>)

\* Agent.formatProviderContent: a heading line when the title is truthy.
formatProviderContent(content, title) ==
    IF title # Undefined /\ title # ""
    THEN <<"# ", title, "\n">> \o content
    ELSE content

----------------------------------------------------------------------------
(* Output shapes *)

\* A shape is its fields in declaration order.
Field(name, type, description) ==
    [name |-> name, type |-> type, description |-> description]

EmptyShape == <<>>
ShapeOne == <<Field("name", "string", "Name")>>
ShapeTwo == <<Field("level", "number", "Level"), Field("name", "string", "Name")>>

Shapes == {EmptyShape, ShapeOne, ShapeTwo}

\* Agent.outputShape is a shape or null.
Null == [isNull |-> TRUE, shape |-> <<>>]
ShapeRef(shape) == [isNull |-> FALSE, shape |-> shape]

\* The lines of the shape description, one per field.
RECURSIVE ShapeLines(_)
ShapeLines(shape) ==
    IF Len(shape) = 0 THEN <<>>
    ELSE <<(<<"  \"", Head(shape).name, "\": \"(", Head(shape).type, ") ",
              Head(shape).description, "\"">>)>> \o ShapeLines(Tail(shape))

\* The name : kind pairs of the reminder.
RECURSIVE JsonParts(_)
JsonParts(shape) ==
    IF Len(shape) = 0 THEN <<>>
    ELSE <<(<<"\"", Head(shape).name, "\" : ", Head(shape).type>>)>>
            \o JsonParts(Tail(shape))

\* The markdown fence: three backquotes.
Fence == "<fence>"

\* What the producer of outputProvider(shape) yields.
OutputShapeText(shape) ==
    <<"The output MUST be a single, valid JSON object. This JSON object must contain exactly ",
      ToString(Len(shape)), " keys in the shape:\n", Fence, "json\n", "{\n">>
    \o JoinTexts(ShapeLines(shape), <<",\n">>) \o <<"\n}", "\n", Fence>>

\* What the producer of outputReminder(shape) yields.
OutputReminderText(shape) ==
    <<"Remember to provide the output strictly in the specified JSON format: ", "{">>
    \o JoinTexts(JsonParts(shape), <<", ">>) \o <<"}">>

----------------------------------------------------------------------------
(* Providers *)

\* A Provider object. text is what its producer yields when it succeeds;
\* mayFail says whether its producer can fail.
Provider(key, type, order, actionKey, title, text, mayFail) ==
    [key |-> key, type |-> type, order |-> order, actionKey |-> actionKey,
     title |-> title, text |-> text, mayFail |-> mayFail]

\* promptProvider, broken: the prompt is given the always-last order.
promptProviderLast(prompt, actionKey) ==
    Provider("prompt", "prompt", POSITIVE_INFINITY, actionKey, Undefined, prompt, FALSE)

\* The four factories: the prompt and the system text with the always-first
\* order, the suffixes with the always-last order.
promptProvider(prompt, actionKey) ==
    Provider("prompt", "prompt", NEGATIVE_INFINITY, actionKey, Undefined, prompt, FALSE)

systemProvider(system, actionKey) ==
    Provider("system", "system", NEGATIVE_INFINITY, actionKey, Undefined, system, FALSE)

promptSuffixProvider(suffix, actionKey) ==
    Provider("promptSuffix", "prompt", POSITIVE_INFINITY, actionKey, Undefined, suffix, FALSE)

systemSuffixProvider(suffix, actionKey) ==
    Provider("systemSuffix", "system", POSITIVE_INFINITY, actionKey, Undefined, suffix, FALSE)

\* A factory that takes any shape, an empty one too.
acceptsAnyShape(shape) == FALSE

\* outputProvider and outputReminder throw on a shape without fields.
requiresNonEmpty(shape) == Len(shape) = 0

\* The factory takes (shapeDescriptor, order): a third argument is not read,
\* so the provider has no actionKey.
outputProvider(shape, order) ==
    Provider("outputShape", "system", Num(order), Undefined, "Output Shape",
             OutputShapeText(shape), FALSE)

outputReminder(shape, order) ==
    Provider("outputReminder", "prompt", Num(order), Undefined, "Output Reminder",
             OutputReminderText(shape), FALSE)

\* The providers a caller registers: the four seed and suffix providers with
\* their default actionKey, and providers of the caller's own.
UserA == Provider("a", "prompt", Num(1), Undefined, "A", <<"alpha">>, TRUE)
UserB == Provider("b", "prompt", Num(1), "other", Undefined, <<"beta">>, TRUE)
UserC == Provider("a", "prompt", NEGATIVE_INFINITY, "reply", "", <<"gamma">>, TRUE)

PromptAgain == promptProvider(<<"again">>, "reply")
PromptSuffix == promptSuffixProvider(<<"suffix">>, "reply")
SystemSeed == systemProvider(<<"sys">>, "reply")
SystemSuffix == systemSuffixProvider(<<"syssuffix">>, "reply")

FirstSentinels == {PromptAgain, SystemSeed}
LastSentinels == {PromptSuffix, SystemSuffix}

ProviderPool == FirstSentinels \cup LastSentinels \cup {UserA, UserB, UserC}

\* The (provider, key) arguments of addProvider and setProvider: every provider
\* without a key, and two with an explicit key.
Registrations ==
    {<<p, Undefined>> : p \in ProviderPool} \cup {<<UserA, "x">>, <<PromptAgain, "x">>}

\* The keys deleteProvider is called with.
DeleteKeys == {"prompt", "a", "outputShape", "missing"}

\* The action keys a render is asked for.
ActionKeys == {"reply", "other"}

\* The end markers of the settings: the default one and a caller's own.
DefaultEndPromptString == <<"# OUTPUT">>
EndPromptStrings == {DefaultEndPromptString, <<"CUSTOM_OUTPUT">>}

\* The prompt the agent is constructed with.
InitialPrompt == <<"Initial Prompt">>

----------------------------------------------------------------------------
(* The Map of providers: entries [key, value] in insertion order *)

MapHas(entries, key) == \E i \in 1..Len(entries) : entries[i].key = key

MapIndex(entries, key) == CHOOSE i \in 1..Len(entries) : entries[i].key = key

MapGet(entries, key) == entries[MapIndex(entries, key)].value

\* A set that leaves the new entry alone in the map.
MapSetAlone(entries, key, value) == <<[key |-> key, value |-> value]>>

\* Map.prototype.set: an existing key keeps its place, a new key goes last.
MapSet(entries, key, value) ==
    IF MapHas(entries, key)
    THEN [entries EXCEPT ![MapIndex(entries, key)].value = value]
    ELSE Append(entries, [key |-> key, value |-> value])

\* Map.prototype.delete.
RECURSIVE MapDelete(_, _)
MapDelete(entries, key) ==
    IF Len(entries) = 0 THEN <<>>
    ELSE IF Head(entries).key = key THEN Tail(entries)
    ELSE <<Head(entries)>> \o MapDelete(Tail(entries), key)

\* How many entries the map holds under key.
CountKey(entries, key) == Cardinality({i \in 1..Len(entries) : entries[i].key = key})

\* key ?? provider.key
resolveKey(key, provider) == IF key # Undefined THEN key ELSE provider.key

----------------------------------------------------------------------------
(* Registry calls *)

NoError == "none"
DuplicateKey == "Provider with key already exists."
EmptyShapeDescriptor == "requires a non-empty shapeDescriptor."

\* The history of the last call: its name, its key argument (of a render, its
\* actionKey), the key it resolved, the provider it was given, the provider it
\* found under the key, its shape argument.
NoProvider == [key |-> Undefined]
NoShape == [given |-> FALSE, shape |-> <<>>]
GivenShape(shape) == [given |-> TRUE, shape |-> shape]
Call(op, arg, key, provider, old, shape) ==
    [op |-> op, arg |-> arg, key |-> key, provider |-> provider, old |-> old,
     shape |-> shape]
NoCall == Call("none", Undefined, Undefined, NoProvider, NoProvider, NoShape)

Found(entries, key) == IF MapHas(entries, key) THEN MapGet(entries, key) ELSE NoProvider

\* The keys setOutput owns.
OutputKeys == {"outputShape", "outputReminder"}

\* No render is in flight: registry calls are made between renders.
Quiescent == rPhase = "idle"

\* Agent.addProvider, broken: an existing key is overwritten.
addProviderOverwrite(provider, key) ==
    /\ Quiescent
    /\ LET providerKey == resolveKey(key, provider) IN
        /\ MapHas(providers, providerKey) \/ Len(providers) < MaxProviders
        /\ providers' = MapSet(providers, providerKey, provider)
        /\ thrown' = NoError
        /\ last' = Call("addProvider", key, providerKey, provider,
                        Found(providers, providerKey), NoShape)
    /\ UNCHANGED <<outputShape, settings>>
    /\ UNCHANGED renderVars
    /\ UNCHANGED <<outputVars, executeVars>>

\* Agent.addProvider
addProvider(provider, key) ==
    /\ Quiescent
    /\ LET providerKey == resolveKey(key, provider) IN
        /\ IF MapHas(providers, providerKey)
           THEN /\ thrown' = DuplicateKey
                /\ UNCHANGED providers
           ELSE /\ Len(providers) < MaxProviders
                /\ providers' = MapSet(providers, providerKey, provider)
                /\ thrown' = NoError
        /\ last' = Call("addProvider", key, providerKey, provider,
                        Found(providers, providerKey), NoShape)
    /\ UNCHANGED <<outputShape, settings>>
    /\ UNCHANGED renderVars
    /\ UNCHANGED <<outputVars, executeVars>>

\* Agent.setProvider, broken: it fails on an existing key as addProvider does.
setProviderStrict(provider, key) ==
    /\ Quiescent
    /\ LET providerKey == resolveKey(key, provider) IN
        /\ IF MapHas(providers, providerKey)
           THEN /\ thrown' = DuplicateKey
                /\ UNCHANGED providers
           ELSE /\ Len(providers) < MaxProviders
                /\ providers' = MapSet(providers, providerKey, provider)
                /\ thrown' = NoError
        /\ last' = Call("setProvider", key, providerKey, provider,
                        Found(providers, providerKey), NoShape)
    /\ UNCHANGED <<outputShape, settings>>
    /\ UNCHANGED renderVars
    /\ UNCHANGED <<outputVars, executeVars>>

\* Agent.setProvider
setProvider(provider, key) ==
    /\ Quiescent
    /\ LET providerKey == resolveKey(key, provider) IN
        /\ MapHas(providers, providerKey) \/ Len(providers) < MaxProviders
        /\ providers' = MapSet(providers, providerKey, provider)
        /\ thrown' = NoError
        /\ last' = Call("setProvider", key, providerKey, provider,
                        Found(providers, providerKey), NoShape)
    /\ UNCHANGED <<outputShape, settings>>
    /\ UNCHANGED renderVars
    /\ UNCHANGED <<outputVars, executeVars>>

\* Agent.deleteProvider
deleteProvider(key) ==
    /\ Quiescent
    /\ providers' = MapDelete(providers, key)
    /\ thrown' = NoError
    /\ last' = Call("deleteProvider", key, key, NoProvider, Found(providers, key), NoShape)
    /\ UNCHANGED <<outputShape, settings>>
    /\ UNCHANGED renderVars
    /\ UNCHANGED <<outputVars, executeVars>>

\* Agent.setOutput, broken: clearing the shape leaves the reminder registered.
setOutputKeepReminder(shapeDescriptor) ==
    /\ Quiescent
    /\ IF ~shapeDescriptor.given
       THEN /\ providers' = MapDelete(providers, "outputShape")
            /\ outputShape' = Null
            /\ thrown' = NoError
       ELSE IF requiresNonEmpty(shapeDescriptor.shape)
       THEN /\ thrown' = EmptyShapeDescriptor
            /\ UNCHANGED <<providers, outputShape>>
       ELSE /\ providers' =
                  MapSet(MapSet(providers, "outputShape",
                                outputProvider(shapeDescriptor.shape, OutputOrder)),
                         "outputReminder",
                         outputReminder(shapeDescriptor.shape, OutputOrder))
            /\ Len(providers') <= MaxProviders
            /\ outputShape' = ShapeRef(shapeDescriptor.shape)
            /\ thrown' = NoError
    /\ last' = Call("setOutput", Undefined, "outputShape", NoProvider,
                    Found(providers, "outputShape"), shapeDescriptor)
    /\ UNCHANGED settings
    /\ UNCHANGED renderVars
    /\ UNCHANGED <<outputVars, executeVars>>

\* Agent.setOutput: without a shape, the two providers are deleted and the
\* shape reset; with one, outputProvider is built and set, then outputReminder
\* is built and set, then the shape stored. Either factory throws on an empty
\* shape, and the first does so before anything is changed.
setOutput(shapeDescriptor) ==
    /\ Quiescent
    /\ IF ~shapeDescriptor.given
       THEN /\ providers' = MapDelete(MapDelete(providers, "outputShape"), "outputReminder")
            /\ outputShape' = Null
            /\ thrown' = NoError
       ELSE IF requiresNonEmpty(shapeDescriptor.shape)
       THEN /\ thrown' = EmptyShapeDescriptor
            /\ UNCHANGED <<providers, outputShape>>
       ELSE /\ providers' =
                  MapSet(MapSet(providers, "outputShape",
                                outputProvider(shapeDescriptor.shape, OutputOrder)),
                         "outputReminder",
                         outputReminder(shapeDescriptor.shape, OutputOrder))
            /\ Len(providers') <= MaxProviders
            /\ outputShape' = ShapeRef(shapeDescriptor.shape)
            /\ thrown' = NoError
    /\ last' = Call("setOutput", Undefined, "outputShape", NoProvider,
                    Found(providers, "outputShape"), shapeDescriptor)
    /\ UNCHANGED settings
    /\ UNCHANGED renderVars
    /\ UNCHANGED <<outputVars, executeVars>>

\* What setOutput is called with: nothing, or a shape.
ShapeArgs == {NoShape} \cup {GivenShape(s) : s \in Shapes}

----------------------------------------------------------------------------
(* The render: executeProviders, prompt, system *)

\* The filter of executeProviders, broken: a provider without actionKey is left out.
selectsTied(provider, type, actionKey) ==
    provider.type = type /\ provider.actionKey = actionKey

\* The filter of executeProviders.
selects(provider, type, actionKey) ==
    /\ provider.type = type
    /\ (provider.actionKey = actionKey \/ provider.actionKey = Undefined)

\* Array.from(this.providers.values()).filter(...): the selected providers in
\* insertion order. key and pos (the entry's key and place in the Map) are
\* history: the array holds the providers only.
Filtered(entries, type, actionKey) ==
    LET F[i \in 0..Len(entries)] ==
            IF i = 0 THEN <<>>
            ELSE IF selects(entries[i].value, type, actionKey)
                 THEN Append(F[i - 1],
                             [provider |-> entries[i].value, key |-> entries[i].key, pos |-> i])
                 ELSE F[i - 1]
    IN F[Len(entries)]

\* The comparator, reversed: (a, b) => b.order - a.order.
byOrderDescending(a, b) == OrderDiff(b.order, a.order)

\* The comparator of the sort: (a, b) => a.order - b.order.
byOrder(a, b) == OrderDiff(a.order, b.order)

\* Array.prototype.sort reads a NaN from the comparator as +0.
SortCompare(a, b) ==
    LET v == byOrder(a.provider, b.provider) IN IF v = "nan" THEN "zero" ELSE v

\* x put into a sorted array behind every element that does not compare greater.
RECURSIVE Insert(_, _)
Insert(sorted, x) ==
    IF Len(sorted) = 0 THEN <<x>>
    ELSE IF SortCompare(sorted[Len(sorted)], x) = "pos"
         THEN Append(Insert(SubSeq(sorted, 1, Len(sorted) - 1), x), sorted[Len(sorted)])
         ELSE Append(sorted, x)

\* Array.prototype.sort: a stable sort by the comparator.
Sort(array) ==
    LET S[i \in 0..Len(array)] == IF i = 0 THEN <<>> ELSE Insert(S[i - 1], array[i])
    IN S[Len(array)]

\* A slot of the results array of Promise.all: pending, or settled to a text
\* or to undefined.
Pending == [settled |-> FALSE, some |-> FALSE, v |-> <<>>]
SettledTo(result) == [settled |-> TRUE, some |-> result.some, v |-> result.v]

\* The catch block, missing: the failure rejects Promise.all and the render.
rethrow == "throw error"

\* The catch block of the map callback: the failure is logged, the callback
\* returns undefined.
onProducerError == "return undefined"

\* The map callback runs up to its await for every provider in turn: the next
\* producer is invoked whatever the earlier ones have done.
invokesNext(invoked, settled) == TRUE

\* The results in the order the producers complete.
completionSlot(i, settled) == settled + 1

\* Promise.all keeps each result at the place of its promise.
resultSlot(i, settled) == i

\* prompt(), without the end marker when there is provider content.
promptContentOrEnd(providerContent, endPromptString) ==
    IF providerContent.some THEN providerContent ELSE Some(endPromptString)

\* prompt(): joinWithNewlines([providerContent, this.settings.endPromptString])
promptText(providerContent, endPromptString) ==
    Some(joinWithNewlines(<<providerContent, Some(endPromptString)>>))

\* system(), without the default.
systemContent(providerContent) == providerContent

\* system(): providerContent ?? ""
systemText(providerContent) ==
    IF providerContent.some THEN providerContent ELSE Some(<<>>)

\* What prompt() or system() returns for the result of executeProviders.
Returned(fn, providerContent) ==
    IF fn = "prompt"
    THEN promptText(providerContent, settings.endPromptString)
    ELSE systemText(providerContent)

ProviderType(fn) == fn

\* A render that reads the providers as they stood when execute() started.
providersAtStart(current, atStart) == atStart

\* this.providers.values(): the Map as it stands when executeProviders is
\* called, whatever it held when the run of execute() started.
providerValues(current, atStart) == current

\* prompt(actionKey) or system(actionKey) is called: executeProviders filters
\* and, when nothing matches, returns undefined; otherwise it sorts.
beginRender(fn, actionKey) ==
    /\ rPhase = "idle"
    /\ LET filteredProviders ==
                Filtered(providerValues(providers, xProviders), ProviderType(fn), actionKey)
       IN
        /\ last' = Call(fn, actionKey, actionKey, NoProvider, NoProvider, NoShape)
        /\ thrown' = NoError
        /\ IF Len(filteredProviders) = 0
           THEN /\ rPhase' = "returned"
                /\ rRet' = Returned(fn, None)
                /\ rSel' = <<>>
                /\ rResults' = <<>>
                /\ rOutcome' = <<>>
           ELSE /\ rPhase' = "mapping"
                /\ rRet' = None
                /\ rSel' = Sort(filteredProviders)
                /\ rResults' = [i \in 1..Len(filteredProviders) |-> Pending]
                /\ rOutcome' = [i \in 1..Len(filteredProviders) |-> "pending"]
        /\ rInvoked' = 0
        /\ rCompleted' = <<>>
    /\ UNCHANGED <<providers, outputShape, settings>>
    /\ UNCHANGED <<outputVars, executeVars>>

\* The map callback invokes the producer of the next provider.
invokeProducer ==
    /\ rPhase = "mapping"
    /\ rInvoked < Len(rSel)
    /\ invokesNext(rInvoked, Len(rCompleted))
    /\ rInvoked' = rInvoked + 1
    /\ rPhase' = IF rInvoked + 1 = Len(rSel) THEN "awaiting" ELSE "mapping"
    /\ UNCHANGED <<rSel, rResults, rOutcome, rCompleted, rRet>>
    /\ UNCHANGED registry
    /\ UNCHANGED <<outputVars, executeVars>>

\* The render has given up control: it awaits Promise.all, or a producer.
Yielded ==
    \/ rPhase = "awaiting"
    \/ rPhase = "mapping" /\ rInvoked < Len(rSel) /\ ~invokesNext(rInvoked, Len(rCompleted))

\* The producer of the i-th selected provider completes with its text, which
\* the callback formats.
producerResolves(i) ==
    /\ Yielded
    /\ i <= rInvoked
    /\ rOutcome[i] = "pending"
    /\ rOutcome' = [rOutcome EXCEPT ![i] = "ok"]
    /\ rResults' = [rResults EXCEPT ![resultSlot(i, Len(rCompleted))] =
                        SettledTo(Some(formatProviderContent(rSel[i].provider.text,
                                                             rSel[i].provider.title)))]
    /\ rCompleted' = Append(rCompleted, i)
    /\ UNCHANGED <<rPhase, rSel, rInvoked, rRet>>
    /\ UNCHANGED registry
    /\ UNCHANGED <<outputVars, executeVars>>

\* The producer of the i-th selected provider fails.
producerRejects(i) ==
    /\ Yielded
    /\ i <= rInvoked
    /\ rOutcome[i] = "pending"
    /\ rSel[i].provider.mayFail
    /\ rOutcome' = [rOutcome EXCEPT ![i] = "fail"]
    /\ rCompleted' = Append(rCompleted, i)
    /\ IF onProducerError = "return undefined"
       THEN /\ rResults' = [rResults EXCEPT ![resultSlot(i, Len(rCompleted))] = SettledTo(None)]
            /\ UNCHANGED rPhase
       ELSE /\ rPhase' = "rejected"
            /\ UNCHANGED rResults
    /\ UNCHANGED <<rSel, rInvoked, rRet>>
    /\ UNCHANGED registry
    /\ UNCHANGED <<outputVars, executeVars>>

\* A wait that is over with the first producer settled, as Promise.race.
anySettled(completed, selected) == completed >= 1

\* await Promise.all(...): over when every producer has settled (each
\* failure being caught, no promise of the array rejects).
allSettled(completed, selected) == completed = selected

\* Promise.all resolves: the defined results are joined and prompt() or
\* system() returns.
finishRender ==
    /\ rPhase = "awaiting"
    /\ allSettled(Len(rCompleted), Len(rSel))
    /\ rRet' = Returned(last.op, Some(joinWithNewlines(rResults)))
    /\ rPhase' = "returned"
    /\ UNCHANGED <<rSel, rInvoked, rResults, rOutcome, rCompleted>>
    /\ UNCHANGED registry
    /\ UNCHANGED <<outputVars, executeVars>>

\* The caller has the value: the agent is ready for the next call.
completeRender ==
    /\ rPhase \in {"returned", "rejected"}
    /\ rPhase' = "idle"
    /\ rSel' = <<>>
    /\ rInvoked' = 0
    /\ rResults' = <<>>
    /\ rOutcome' = <<>>
    /\ rCompleted' = <<>>
    /\ rRet' = None
    /\ UNCHANGED registry
    /\ UNCHANGED <<outputVars, executeVars>>

\* No call of processOutput is in progress.
OutputIdle ==
    /\ oShape = <<>>
    /\ oText = <<>>
    /\ oDoc = <<>>
    /\ oPc = "idle"
    /\ oJson = <<>>
    /\ oParsed = <<>>
    /\ oIdx = 0
    /\ oResult = <<>>
    /\ oThrown = <<>>

\* No call of the execute function of replyAction is in progress.
ReplyIdle ==
    /\ replyPc = "idle"
    /\ rawResponse = <<>>
    /\ replyResult = <<>>

\* No run of execute() is followed.
ExecuteIdle ==
    /\ actions = <<>>
    /\ xPc = "idle"
    /\ xQueue = <<>>
    /\ xIdx = 0
    /\ xResults = <<>>
    /\ xStart = <<>>
    /\ xLog = <<>>
    /\ xChanges = 0
    /\ xProviders = <<>>
    /\ replyEnabled = "true"
    /\ ReplyIdle

----------------------------------------------------------------------------
(* Construction *)

\* new Agent(prompt, settings): the settings over the defaults, the prompt
\* registered under the key of promptProvider, and no render in flight.
Init ==
    /\ providers = <<[key |-> "prompt", value |-> promptProvider(InitialPrompt, "reply")]>>
    /\ outputShape = Null
    /\ settings \in {[endPromptString |-> e] : e \in EndPromptStrings}
    /\ thrown = NoError
    /\ last = NoCall
    /\ rPhase = "idle"
    /\ rSel = <<>>
    /\ rInvoked = 0
    /\ rResults = <<>>
    /\ rOutcome = <<>>
    /\ rCompleted = <<>>
    /\ rRet = None
    /\ OutputIdle
    /\ ExecuteIdle

Next ==
    \/ \E r \in Registrations : addProvider(r[1], r[2])
    \/ \E r \in Registrations : setProvider(r[1], r[2])
    \/ \E k \in DeleteKeys : deleteProvider(k)
    \/ \E s \in ShapeArgs : setOutput(s)
    \/ \E fn \in {"prompt", "system"}, a \in ActionKeys : beginRender(fn, a)
    \/ invokeProducer
    \/ \E i \in 1..Len(rSel) : producerResolves(i)
    \/ \E i \in 1..Len(rSel) : producerRejects(i)
    \/ finishRender
    \/ completeRender

Spec == Init /\ [][Next]_vars

----------------------------------------------------------------------------
(* Properties of the render *)

\* Order a lies strictly below order b.
OrderLess(a, b) == a.inf < b.inf \/ (a.inf = 0 /\ b.inf = 0 /\ a.n < b.n)

\* A render is in flight or has returned, with providers selected.
Rendering == rPhase # "idle" /\ Len(rSel) > 0

\* The render has returned, with providers selected.
Rendered == rPhase = "returned" /\ Len(rSel) > 0

\* The formatted content of the i-th selected provider.
ContentOf(i) == formatProviderContent(rSel[i].provider.text, rSel[i].provider.title)

\* The positions of the selected providers whose producer succeeded.
Succeeded == {i \in 1..Len(rSel) : rOutcome[i] = "ok"}

\* The formatted contents of the successful producers, by position in the
\* sorted selection, whatever the order they completed in.
ContentsInOrder ==
    LET F[i \in 0..Len(rSel)] ==
            IF i = 0 THEN <<>>
            ELSE IF rOutcome[i] = "ok" THEN Append(F[i - 1], ContentOf(i))
            ELSE F[i - 1]
    IN F[Len(rSel)]

\* The merged text a render with a successful producer has to return.
ExpectedReturn ==
    LET merged == JoinTexts(ContentsInOrder, <<"\n\n">>) IN
    IF last.op = "prompt"
    THEN merged \o <<"\n\n">> \o settings.endPromptString
    ELSE merged

\* The content of the i-th selected provider is the content of no other
\* successful one (a provider may be registered under two keys).
Once(i) == \A k \in Succeeded : k # i => ContentOf(k) # ContentOf(i)

\* C1: the selected providers are rendered in ascending order, and two with
\* equal order in the order their keys were registered: the selection is sorted
\* so, and in the returned text the content of a successful provider never
\* comes behind the content of one sorted after it.
C1_AscendingOrder ==
    Rendering =>
        /\ \A i, j \in 1..Len(rSel) :
            i < j =>
                \/ OrderLess(rSel[i].provider.order, rSel[j].provider.order)
                \/ /\ rSel[i].provider.order = rSel[j].provider.order
                   /\ rSel[i].pos < rSel[j].pos
        /\ rPhase = "returned" =>
            \A i, j \in Succeeded :
                (i < j /\ Once(i) /\ Once(j)) =>
                    /\ IndexOf(rRet.v, ContentOf(i)) > 0
                    /\ IndexOf(rRet.v, ContentOf(i)) < IndexOf(rRet.v, ContentOf(j))

\* C1's case: three providers rendered, two of them with equal order, and one
\* registered before a provider that sorts ahead of it.
C1_Witness ==
    /\ Rendered
    /\ Succeeded = 1..3
    /\ \E i \in 1..2 : rSel[i].provider.order = rSel[i + 1].provider.order
    /\ \E i \in 1..2 : rSel[i].pos > rSel[i + 1].pos

\* A provider made by promptProvider or systemProvider (they alone carry these
\* keys), and one made by promptSuffixProvider or systemSuffixProvider.
IsSeed(provider) == provider.key \in {"prompt", "system"}
IsSuffix(provider) == provider.key \in {"promptSuffix", "systemSuffix"}

Failed == {i \in 1..Len(rSel) : rOutcome[i] = "fail"}

\* C3: a failing producer contributes nothing and does not fail the render:
\* no render is rejected, and a render that has returned holds the formatted
\* content of every successful provider and no text of a failed one (unless
\* the same provider, registered under another key, succeeded).
C3_FailureIsolated ==
    /\ rPhase # "rejected"
    /\ Rendered =>
        /\ rRet.some
        /\ \A i \in Succeeded : Contains(rRet.v, ContentOf(i))
        /\ \A i \in Failed :
            (\A k \in Succeeded : rSel[k].provider # rSel[i].provider) =>
                ~Contains(rRet.v, rSel[i].provider.text)

\* C3's case: a render has returned after one producer failed and two others
\* succeeded.
C3_Witness ==
    /\ Rendered
    /\ Cardinality(Failed) = 1
    /\ Cardinality(Succeeded) = 2
    /\ \A i \in Succeeded : Contains(rRet.v, ContentOf(i))

\* C4: every selected producer is invoked before the render waits for any of
\* them, and the merged text is the same whatever the order they complete in:
\* it is the contents of the successful ones by their place in the sorted
\* selection.
C4_ConcurrentAndPositional ==
    /\ (Yielded \/ Len(rCompleted) > 0) => rInvoked = Len(rSel)
    /\ (Rendered /\ Succeeded # {}) => rRet = Some(ExpectedReturn)

\* C4's case: three producers, all invoked, completed in the reverse of their
\* order in the selection, and the text returned.
C4_Witness ==
    /\ Rendered
    /\ rInvoked = 3
    /\ rCompleted = <<3, 2, 1>>
    /\ Succeeded = 1..3
    /\ rSel[1].provider # rSel[3].provider

\* C5: the text prompt() returns ends with the end-of-prompt marker of the
\* settings, also when no provider is selected or every producer fails.
C5_PromptEndsWithMarker ==
    (rPhase = "returned" /\ last.op = "prompt") =>
        /\ rRet.some
        /\ EndsWith(rRet.v, settings.endPromptString)

\* C5's case: prompt() has returned after the producers of both selected
\* providers failed.
C5_Witness ==
    /\ rPhase = "returned"
    /\ last.op = "prompt"
    /\ Len(rSel) = 2
    /\ Failed = 1..2

\* No provider of the collection has the type and scope of the render in flight.
NoneMatches ==
    \A i \in 1..Len(providers) :
        \/ providers[i].value.type # last.op
        \/ providers[i].value.actionKey \notin {Undefined, last.arg}

\* C6: system() returns a text, never the no-content value, and the empty
\* text when no system provider matches the scope.
C6_SystemNeverUndefined ==
    (rPhase = "returned" /\ last.op = "system") =>
        /\ rRet.some
        /\ NoneMatches => rRet.v = <<>>

\* C6's case: system() has returned while the collection holds a system
\* provider of another scope only.
C6_Witness ==
    /\ rPhase = "returned"
    /\ last.op = "system"
    /\ last.arg = "other"
    /\ NoneMatches
    /\ \E i \in 1..Len(providers) : providers[i].value.type = "system"
    /\ rRet = Some(<<>>)

----------------------------------------------------------------------------
(* Properties of the provider collection *)

\* C7: addProvider registers the provider under the explicit key when one is
\* given, else under the provider's own key, behind the entries already there;
\* a provider registered under an explicit key leaves its own key free; on a
\* key already present the call fails, and the collection is as it was.
C7_AddProvider ==
    [][last'.op = "addProvider" =>
        LET provider == last'.provider
            key == IF last'.arg # Undefined THEN last'.arg ELSE provider.key
        IN  /\ IF MapHas(providers, key)
               THEN /\ thrown' = DuplicateKey
                    /\ providers' = providers
                    /\ outputShape' = outputShape
               ELSE /\ thrown' = NoError
                    /\ providers' = Append(providers, [key |-> key, value |-> provider])
            /\ (key # provider.key /\ ~MapHas(providers, provider.key)) =>
                    ~MapHas(providers', provider.key)
    ]_vars

\* C7's case: a provider is held under an explicit key with its own key free,
\* and addProvider of another provider under that explicit key has failed.
C7_Witness ==
    /\ last.op = "addProvider"
    /\ last.arg = "x"
    /\ thrown = DuplicateKey
    /\ MapHas(providers, "x")
    /\ MapGet(providers, "x") = UserA
    /\ ~MapHas(providers, UserA.key)
    /\ last.provider # UserA

\* Every provider a call or the construction can put into the collection.
KnownProviders ==
    ProviderPool \cup {promptProvider(InitialPrompt, "reply")}
        \cup {outputProvider(shape, OutputOrder) : shape \in Shapes \ {EmptyShape}}
        \cup {outputReminder(shape, OutputOrder) : shape \in Shapes \ {EmptyShape}}

\* C8: setProvider does not fail, and after it the collection holds one
\* provider under the resolved key, the one given; a render selects what the
\* collection holds now, so that the text it returns has the content of every
\* successful selected provider and the text of no provider that the
\* collection no longer holds.
C8_SetProvider ==
    /\ last.op = "setProvider" =>
        /\ thrown = NoError
        /\ last.key = (IF last.arg # Undefined THEN last.arg ELSE last.provider.key)
        /\ CountKey(providers, last.key) = 1
        /\ MapGet(providers, last.key) = last.provider
    /\ rPhase # "idle" =>
        \A i \in 1..Len(rSel) :
            /\ rSel[i].pos \in 1..Len(providers)
            /\ providers[rSel[i].pos] = [key |-> rSel[i].key, value |-> rSel[i].provider]
    /\ rPhase = "returned" =>
        /\ \A i \in Succeeded : Contains(rRet.v, ContentOf(i))
        /\ \A q \in KnownProviders :
            Contains(rRet.v, q.text) =>
                \E i \in 1..Len(providers) : providers[i].value = q

\* C8's case: setProvider has replaced a different provider held under the
\* key, and the collection holds the replaced one no more.
C8_Witness ==
    /\ last.op = "setProvider"
    /\ last.old # NoProvider
    /\ last.old # last.provider
    /\ MapGet(providers, last.key) = last.provider
    /\ \A i \in 1..Len(providers) : providers[i].value # last.old

\* The entry at a place of the collection has the type and scope of the
\* render in flight.
Matches(pos) ==
    /\ providers[pos].value.type = last.op
    /\ providers[pos].value.actionKey \in {Undefined, last.arg}

\* C9: a render for an action selects a provider exactly when its type is the
\* render's and it has no actionKey or the action's; the text returned holds
\* nothing of a provider tied to another action.
C9_ScopeFilter ==
    rPhase # "idle" =>
        /\ \A pos \in 1..Len(providers) :
            Matches(pos) <=>
                \E i \in 1..Len(rSel) :
                    rSel[i].pos = pos /\ rSel[i].provider = providers[pos].value
        /\ Cardinality({rSel[i].pos : i \in 1..Len(rSel)}) = Len(rSel)
        /\ rPhase = "returned" =>
            \A pos \in 1..Len(providers) :
                ( /\ ~Matches(pos)
                  /\ \A k \in 1..Len(providers) :
                        Matches(k) => providers[k].value # providers[pos].value ) =>
                    ~Contains(rRet.v, providers[pos].value.text)

\* C9's case: a prompt render for one action has returned the content of a
\* provider tied to it and of one without actionKey, while the collection
\* holds a prompt provider tied to another action.
C9_Witness ==
    /\ rPhase = "returned"
    /\ last.op = "prompt"
    /\ last.arg = "other"
    /\ Len(rSel) = 2
    /\ Succeeded = 1..2
    /\ \E i \in 1..2 : rSel[i].provider.actionKey = "other"
    /\ \E i \in 1..2 : rSel[i].provider.actionKey = Undefined
    /\ \E pos \in 1..Len(providers) :
        /\ providers[pos].value.type = "prompt"
        /\ providers[pos].value.actionKey = "reply"

\* C10: the collection never holds more than one provider under outputShape
\* nor under outputReminder; after setOutput with a shape both are there and
\* describe that shape, which is the stored one; after setOutput without a
\* shape both are gone and the stored shape is null.
C10_SetOutput ==
    /\ \A key \in OutputKeys : CountKey(providers, key) <= 1
    /\ (last.op = "setOutput" /\ last.shape.given /\ last.shape.shape # EmptyShape) =>
        /\ thrown = NoError
        /\ \A key \in OutputKeys : MapHas(providers, key)
        /\ MapGet(providers, "outputShape").type = "system"
        /\ MapGet(providers, "outputShape").text = OutputShapeText(last.shape.shape)
        /\ MapGet(providers, "outputReminder").type = "prompt"
        /\ MapGet(providers, "outputReminder").text = OutputReminderText(last.shape.shape)
        /\ outputShape = ShapeRef(last.shape.shape)
    /\ (last.op = "setOutput" /\ ~last.shape.given) =>
        /\ thrown = NoError
        /\ \A key \in OutputKeys : ~MapHas(providers, key)
        /\ outputShape = Null

\* C10's case: setOutput with a shape, called on a collection that held the
\* output providers of another shape.
C10_Witness ==
    /\ last.op = "setOutput"
    /\ last.shape = GivenShape(ShapeTwo)
    /\ last.old = outputProvider(ShapeOne, OutputOrder)
    /\ MapGet(providers, "outputShape") = outputProvider(ShapeTwo, OutputOrder)
    /\ MapGet(providers, "outputReminder") = outputReminder(ShapeTwo, OutputOrder)
    /\ outputShape = ShapeRef(ShapeTwo)

----------------------------------------------------------------------------
(* processOutput: characters, strings and numbers *)

\* In processOutput a text is the sequence of its characters; the three
\* backquotes of a fence are the one element Fence.
Quote == "\""

\* The white space String.prototype.trim and JSON.parse skip.
IsSpace(c) == c \in {" ", "\n"}

RECURSIVE TrimStart(_)
TrimStart(s) == IF Len(s) > 0 /\ IsSpace(Head(s)) THEN TrimStart(Tail(s)) ELSE s

RECURSIVE TrimEnd(_)
TrimEnd(s) ==
    IF Len(s) > 0 /\ IsSpace(s[Len(s)]) THEN TrimEnd(SubSeq(s, 1, Len(s) - 1)) ELSE s

\* String.prototype.trim
Trim(s) == TrimEnd(TrimStart(s))

\* s begins with prefix (String.prototype.startsWith).
StartsWith(s, prefix) == Len(prefix) <= Len(s) /\ SubSeq(s, 1, Len(prefix)) = prefix

\* The lower-case form of a character.
LowerChar(c) ==
    CASE c = "A" -> "a" [] c = "E" -> "e" [] c = "F" -> "f" [] c = "J" -> "j"
      [] c = "L" -> "l" [] c = "N" -> "n" [] c = "O" -> "o" [] c = "R" -> "r"
      [] c = "S" -> "s" [] c = "T" -> "t" [] c = "U" -> "u" [] OTHER -> c

\* String.prototype.toLowerCase
toLowerCase(s) == [i \in 1..Len(s) |-> LowerChar(s[i])]

Digits == <<"0", "1", "2", "3", "4", "5", "6", "7", "8", "9">>
IsDigit(c) == \E d \in 1..10 : Digits[d] = c
DigitValue(c) == (CHOOSE d \in 1..10 : Digits[d] = c) - 1

\* The value of a run of decimal digits, after the digits already read.
RECURSIVE DigitsValue(_, _)
DigitsValue(s, acc) ==
    IF Len(s) = 0 THEN acc ELSE DigitsValue(Tail(s), acc * 10 + DigitValue(Head(s)))

AllDigits(s) == Len(s) > 0 /\ \A i \in 1..Len(s) : IsDigit(s[i])

\* A number or NaN.
NaN == [nan |-> TRUE, n |-> 0]
Finite(n) == [nan |-> FALSE, n |-> n]

\* Number(value) of a string: white space around is dropped, the empty string
\* is 0, a decimal integer with an optional sign is its value, anything else
\* of these texts is NaN.
Number(s) ==
    LET t == Trim(s) IN
    IF Len(t) = 0 THEN Finite(0)
    ELSE IF AllDigits(t) THEN Finite(DigitsValue(t, 0))
    ELSE IF t[1] = "-" /\ AllDigits(Tail(t)) THEN Finite(0 - DigitsValue(Tail(t), 0))
    ELSE IF t[1] = "+" /\ AllDigits(Tail(t)) THEN Finite(DigitsValue(Tail(t), 0))
    ELSE NaN

\* The decimal digits of a natural number.
RECURSIVE NatToString(_)
NatToString(n) ==
    IF n < 10 THEN <<Digits[n + 1]>> ELSE Append(NatToString(n \div 10), Digits[(n % 10) + 1])

\* String(value) of an integer.
NumberToString(n) == IF n < 0 THEN <<"-">> \o NatToString(0 - n) ELSE NatToString(n)

----------------------------------------------------------------------------
(* processOutput: JSON values and JSON.parse *)

\* A JavaScript value as JSON.parse yields it: kind is its runtime kind, and s
\* (the characters of a string), n (a number), b (a boolean) or items (the
\* members [name, value] of an object, the elements of an array) hold it.
JValue(kind, s, n, b, items) ==
    [kind |-> kind, s |-> s, n |-> n, b |-> b, items |-> items]
JString(s) == JValue("string", s, 0, FALSE, <<>>)
JNumber(n) == JValue("number", <<>>, n, FALSE, <<>>)
JBoolean(b) == JValue("boolean", <<>>, 0, b, <<>>)
JNull == JValue("null", <<>>, 0, FALSE, <<>>)
JObject(members) == JValue("object", <<>>, 0, FALSE, members)
JArray(elements) == JValue("array", <<>>, 0, FALSE, elements)
JUndefined == JValue("undefined", <<>>, 0, FALSE, <<>>)

\* A function: what reading a name of Object.prototype off a parsed object
\* gives when the object has no member of that name.
JFunction == JValue("function", <<>>, 0, FALSE, <<>>)
NativeCode == <<"function Object() { [native code] }">>

\* typeof value
typeof(value) == IF value.kind \in {"null", "array"} THEN "object" ELSE value.kind

\* String(value): a number as its digits, a boolean as its name, an object as
\* [object Object], an array as its elements joined by commas (null and
\* undefined elements as nothing).
ObjectObject == <<"[", "o", "b", "j", "e", "c", "t", " ", "O", "b", "j", "e", "c", "t", "]">>
RECURSIVE String(_)
String(value) ==
    CASE value.kind = "string" -> value.s
      [] value.kind = "number" -> NumberToString(value.n)
      [] value.kind = "boolean" ->
            IF value.b THEN <<"t", "r", "u", "e">> ELSE <<"f", "a", "l", "s", "e">>
      [] value.kind = "object" -> ObjectObject
      [] value.kind = "array" ->
            JoinTexts([i \in 1..Len(value.items) |->
                          IF value.items[i].kind \in {"null", "undefined"} THEN <<>>
                          ELSE String(value.items[i])], <<",">>)
      [] value.kind = "null" -> <<"n", "u", "l", "l">>
      [] value.kind = "function" -> NativeCode
      [] OTHER -> <<"u", "n", "d", "e", "f", "i", "n", "e", "d">>

\* The outcome of reading a value off the front of a text: the value and the
\* text behind it, or a failure.
ParseFail == [ok |-> FALSE, v |-> JUndefined, rest |-> <<>>]
ParseOk(v, rest) == [ok |-> TRUE, v |-> v, rest |-> rest]

\* The place of the first c in s from place from on, 0 when there is none.
Find(s, c, from) ==
    IF \E i \in from..Len(s) : s[i] = c
    THEN CHOOSE i \in from..Len(s) : s[i] = c /\ \A j \in from..(i - 1) : s[j] # c
    ELSE 0

\* A JSON string at the front of s (s[1] is the quote): up to the next quote;
\* a line break inside it is a syntax error.
ParseString(s) ==
    LET close == Find(s, Quote, 2) IN
    IF close = 0 THEN ParseFail
    ELSE IF \E i \in 2..(close - 1) : s[i] = "\n" THEN ParseFail
    ELSE ParseOk(JString(SubSeq(s, 2, close - 1)), SubSeq(s, close + 1, Len(s)))

\* How many digits s begins with.
RECURSIVE DigitRun(_)
DigitRun(s) == IF Len(s) > 0 /\ IsDigit(Head(s)) THEN 1 + DigitRun(Tail(s)) ELSE 0

\* A JSON number at the front of s: an optional minus and digits.
ParseNumber(s) ==
    LET neg == s[1] = "-"
        t == IF neg THEN Tail(s) ELSE s
        k == DigitRun(t)
    IN  IF k = 0 THEN ParseFail
        ELSE IF k > 1 /\ t[1] = "0" THEN ParseFail
        ELSE ParseOk(JNumber(IF neg THEN 0 - DigitsValue(SubSeq(t, 1, k), 0)
                                    ELSE DigitsValue(SubSeq(t, 1, k), 0)),
                     SubSeq(t, k + 1, Len(t)))

RECURSIVE ParseValue(_)
RECURSIVE ParseMembers(_, _)
RECURSIVE ParseElements(_, _)

\* A JSON value at the front of s, white space before it skipped.
ParseValue(s0) ==
    LET s == TrimStart(s0) IN
    IF Len(s) = 0 THEN ParseFail
    ELSE IF s[1] = "{" THEN
        (IF Len(TrimStart(Tail(s))) > 0 /\ TrimStart(Tail(s))[1] = "}"
         THEN ParseOk(JObject(<<>>), Tail(TrimStart(Tail(s))))
         ELSE ParseMembers(TrimStart(Tail(s)), <<>>))
    ELSE IF s[1] = "[" THEN
        (IF Len(TrimStart(Tail(s))) > 0 /\ TrimStart(Tail(s))[1] = "]"
         THEN ParseOk(JArray(<<>>), Tail(TrimStart(Tail(s))))
         ELSE ParseElements(Tail(s), <<>>))
    ELSE IF s[1] = Quote THEN ParseString(s)
    ELSE IF StartsWith(s, <<"t", "r", "u", "e">>)
        THEN ParseOk(JBoolean(TRUE), SubSeq(s, 5, Len(s)))
    ELSE IF StartsWith(s, <<"f", "a", "l", "s", "e">>)
        THEN ParseOk(JBoolean(FALSE), SubSeq(s, 6, Len(s)))
    ELSE IF StartsWith(s, <<"n", "u", "l", "l">>)
        THEN ParseOk(JNull, SubSeq(s, 5, Len(s)))
    ELSE IF s[1] = "-" \/ IsDigit(s[1]) THEN ParseNumber(s)
    ELSE ParseFail

\* The members of an object from s on (white space skipped), behind those
\* already read: a string, a colon, a value, then a comma and more members or
\* the closing brace.
ParseMembers(s, members) ==
    IF Len(s) = 0 \/ s[1] # Quote THEN ParseFail
    ELSE LET name == ParseString(s) IN
         IF ~name.ok THEN ParseFail
         ELSE LET colon == TrimStart(name.rest) IN
              IF Len(colon) = 0 \/ colon[1] # ":" THEN ParseFail
              ELSE LET value == ParseValue(Tail(colon)) IN
                   IF ~value.ok THEN ParseFail
                   ELSE LET next == TrimStart(value.rest)
                            read == Append(members, [name |-> name.v.s, value |-> value.v])
                        IN  IF Len(next) = 0 THEN ParseFail
                            ELSE IF next[1] = "," THEN ParseMembers(TrimStart(Tail(next)), read)
                            ELSE IF next[1] = "}" THEN ParseOk(JObject(read), Tail(next))
                            ELSE ParseFail

\* The elements of an array from s on, behind those already read.
ParseElements(s, elements) ==
    LET value == ParseValue(s) IN
    IF ~value.ok THEN ParseFail
    ELSE LET next == TrimStart(value.rest)
             read == Append(elements, value.v)
         IN  IF Len(next) = 0 THEN ParseFail
             ELSE IF next[1] = "," THEN ParseElements(Tail(next), read)
             ELSE IF next[1] = "]" THEN ParseOk(JArray(read), Tail(next))
             ELSE ParseFail

\* JSON.parse(text): the value when the text is one JSON value with white
\* space around it, else a SyntaxError.
JSONparse(text) ==
    LET r == ParseValue(text) IN
    IF r.ok /\ Len(TrimStart(r.rest)) = 0 THEN ParseOk(r.v, <<>>) ELSE ParseFail

\* parsedData[key]: of an object the value of its last member of that name,
\* or undefined; of a number, a string, a boolean or an array, undefined (the
\* names looked up are not names of their prototypes).
HasOwn(data, key) ==
    data.kind = "object" /\ \E i \in 1..Len(data.items) : data.items[i].name = key

\* The names every value but null and undefined inherits a function for
\* (those of them the shapes use).
PrototypeNames == {<<"constructor">>}

Property(data, key) ==
    IF HasOwn(data, key)
    THEN data.items[CHOOSE i \in 1..Len(data.items) :
                        /\ data.items[i].name = key
                        /\ \A j \in (i + 1)..Len(data.items) : data.items[j].name # key].value
    ELSE IF data.kind \notin {"null", "undefined"} /\ key \in PrototypeNames
    THEN JFunction
    ELSE JUndefined

----------------------------------------------------------------------------
(* processOutput: the search for the fenced block *)

\* The characters j, s, o, n in any letter case stand at place i of text.
TagAt(text, i) ==
    /\ i + 3 <= Len(text)
    /\ toLowerCase(SubSeq(text, i, i + 3)) = <<"j", "s", "o", "n">>

\* Where the opening brace of a block stands whose fence begins at place i:
\* behind the tag, or behind one line break behind the tag; 0 when the fence,
\* the tag or the brace is not there.
BraceAfterFence(text, i) ==
    IF ~(text[i] = Fence /\ TagAt(text, i + 1)) THEN 0
    ELSE IF i + 5 <= Len(text) /\ text[i + 5] = "{" THEN i + 5
    ELSE IF i + 6 <= Len(text) /\ text[i + 5] = "\n" /\ text[i + 6] = "{" THEN i + 6
    ELSE 0

\* A closing brace at place e ends the block: a fence stands behind it, or
\* behind one line break behind it.
ClosesBlock(text, e) ==
    /\ text[e] = "}"
    /\ \/ e + 1 <= Len(text) /\ text[e + 1] = Fence
       \/ e + 2 <= Len(text) /\ text[e + 1] = "\n" /\ text[e + 2] = Fence

\* The places at which the pattern matches when it starts at place i.
BlockEnds(text, i) ==
    IF BraceAfterFence(text, i) = 0 THEN {}
    ELSE {e \in (BraceAfterFence(text, i) + 1)..Len(text) : ClosesBlock(text, e)}

\* text.match(jsonBlockRegex): the leftmost start at which the pattern
\* matches and, the capture being lazy, the nearest end; match[1] is the text
\* from the brace to that closing brace.
MatchJsonBlock(text) ==
    LET starts == {i \in 1..Len(text) : BlockEnds(text, i) # {}} IN
    IF starts = {} THEN [matched |-> FALSE, group |-> <<>>]
    ELSE LET i == CHOOSE a \in starts : \A b \in starts : a <= b
             e == CHOOSE a \in BlockEnds(text, i) : \A b \in BlockEnds(text, i) : a <= b
         IN  [matched |-> TRUE, group |-> SubSeq(text, BraceAfterFence(text, i), e)]

----------------------------------------------------------------------------
(* processOutput: the checks of one field *)

\* What the switch does with the value of a field: it stores a value in the
\* result, or throws.
Accept(value) == [ok |-> TRUE, v |-> value]
Reject == [ok |-> FALSE, v |-> JUndefined]

\* case 'string', strict: a value that is not a string is a type mismatch.
stringFieldStrict(value) == IF value.kind # "string" THEN Reject ELSE Accept(value)

\* case 'string'
stringField(value) ==
    IF typeof(value) # "string" THEN Accept(JString(String(value))) ELSE Accept(value)

\* case 'number', without the conversion of strings.
numberFieldStrict(value) == IF typeof(value) = "number" THEN Accept(value) ELSE Reject

\* case 'number', storing the string itself when it denotes a number.
numberFieldUnconverted(value) ==
    IF typeof(value) = "number" THEN Accept(value)
    ELSE IF typeof(value) = "string" /\ ~Number(value.s).nan THEN Accept(value)
    ELSE Reject

\* case 'number' (a value JSON.parse yields is never NaN)
numberField(value) ==
    IF typeof(value) = "number" THEN Accept(value)
    ELSE IF typeof(value) = "string"
         THEN LET num == Number(value.s) IN
              IF ~num.nan THEN Accept(JNumber(num.n)) ELSE Reject
    ELSE Reject

\* case 'boolean', comparing the string as it is written.
booleanFieldCaseSensitive(value) ==
    IF typeof(value) = "boolean" THEN Accept(value)
    ELSE IF typeof(value) = "string"
         THEN IF value.s = <<"t", "r", "u", "e">> THEN Accept(JBoolean(TRUE))
              ELSE IF value.s = <<"f", "a", "l", "s", "e">> THEN Accept(JBoolean(FALSE))
              ELSE Reject
    ELSE Reject

\* case 'boolean'
booleanField(value) ==
    IF typeof(value) = "boolean" THEN Accept(value)
    ELSE IF typeof(value) = "string"
         THEN LET lowerValue == toLowerCase(value.s) IN
              IF lowerValue = <<"t", "r", "u", "e">> THEN Accept(JBoolean(TRUE))
              ELSE IF lowerValue = <<"f", "a", "l", "s", "e">> THEN Accept(JBoolean(FALSE))
              ELSE Reject
    ELSE Reject

\* case 'object', by typeof alone: an array passes.
objectFieldByTypeof(value) == IF typeof(value) # "object" THEN Reject ELSE Accept(value)

\* case 'object'
objectField(value) ==
    IF typeof(value) # "object" \/ value.kind = "null" \/ value.kind = "array"
    THEN Reject ELSE Accept(value)

\* case 'array'
arrayField(value) == IF value.kind # "array" THEN Reject ELSE Accept(value)

\* The errors processOutput throws, by kind, with the field they name.
OutputError(kind, key) == [kind |-> kind, key |-> key]
NoThrow == OutputError("none", "")
EmptyShapeError == OutputError("processOutput requires a non-empty shapeDescriptor.", "")
EmptyInputError == OutputError("processOutput requires a non-empty jsonString.", "")
ParseError == OutputError("Failed to parse JSON", "")
MissingKey(key) == OutputError("Missing key", key)
TypeMismatch(key) == OutputError("Type mismatch", key)
UnknownType(key) == OutputError("Unknown type", key)
NullData == OutputError("TypeError: cannot read properties of null", "")

\* A field name as the text of a key of the parsed object: the names of the
\* shapes processOutput is given here are one token of text each.
NameChars(name) == <<name>>

\* One pass of the loop body for a field: what it throws, or NoThrow and the
\* value it stores.
FieldStep(descriptor, parsedData) ==
    IF parsedData.kind = "null" THEN [thrown |-> NullData, v |-> JUndefined]
    ELSE LET value == Property(parsedData, NameChars(descriptor.name)) IN
         IF value.kind = "undefined" \/ value.kind = "null"
         THEN [thrown |-> MissingKey(descriptor.name), v |-> JUndefined]
         ELSE IF descriptor.type \notin {"string", "number", "boolean", "object", "array"}
         THEN [thrown |-> UnknownType(descriptor.name), v |-> JUndefined]
         ELSE LET cast == CASE descriptor.type = "string" -> stringField(value)
                            [] descriptor.type = "number" -> numberField(value)
                            [] descriptor.type = "boolean" -> booleanField(value)
                            [] descriptor.type = "object" -> objectField(value)
                            [] descriptor.type = "array" -> arrayField(value)
              IN  IF cast.ok THEN [thrown |-> NoThrow, v |-> cast.v]
                  ELSE [thrown |-> TypeMismatch(descriptor.name), v |-> JUndefined]

\* result[key] = value
SetProperty(result, key, value) ==
    IF \E i \in 1..Len(result) : result[i].name = key
    THEN [i \in 1..Len(result) |->
            IF result[i].name = key THEN [name |-> key, value |-> value] ELSE result[i]]
    ELSE Append(result, [name |-> key, value |-> value])

\* The JSON candidate: match[1] when the pattern matches the trimmed text,
\* else the trimmed text.
extractedJson(jsonString) ==
    LET match == MatchJsonBlock(Trim(jsonString)) IN
    IF match.matched /\ Len(match.group) > 0 THEN match.group ELSE Trim(jsonString)

\* What a call of processOutput comes to: the record it returns, or the error
\* it throws.
Returns(result) == [thrown |-> NoThrow, result |-> result]
Throws(error) == [thrown |-> error, result |-> <<>>]

\* A field name that is an array index: for ... in enumerates such keys
\* first, in ascending numeric order, and the other keys after them in the
\* order they were declared in.
IsIndexName(name) == IsDigit(name)

\* Positions of the shape whose names are array indices, ascending by index.
RECURSIVE Ascending(_, _)
Ascending(shape, positions) ==
    IF positions = {} THEN <<>>
    ELSE LET least == CHOOSE i \in positions :
                        \A j \in positions :
                            DigitValue(shape[i].name) <= DigitValue(shape[j].name)
         IN  <<least>> \o Ascending(shape, positions \ {least})

\* The positions of the shape in the order for ... in visits its keys.
ForIn(shape) ==
    Ascending(shape, {i \in 1..Len(shape) : IsIndexName(shape[i].name)})
        \o SelectSeq([i \in 1..Len(shape) |-> i], LAMBDA i : ~IsIndexName(shape[i].name))

\* The fields of the shape in that order.
Fields(shape) == [i \in 1..Len(shape) |-> shape[ForIn(shape)[i]]]

\* The loop over the fields, in the order for ... in gives them.
RECURSIVE FieldLoop(_, _, _)
FieldLoop(shape, parsedData, result) ==
    IF Len(shape) = 0 THEN Returns(result)
    ELSE LET step == FieldStep(Head(shape), parsedData) IN
         IF step.thrown # NoThrow THEN Throws(step.thrown)
         ELSE FieldLoop(Tail(shape), parsedData,
                        SetProperty(result, Head(shape).name, step.v))

\* processOutput(shapeDescriptor, jsonString) as a function of its arguments.
processOutput(shapeDescriptor, jsonString) ==
    IF Len(shapeDescriptor) = 0 THEN Throws(EmptyShapeError)
    ELSE IF Len(jsonString) = 0 \/ Len(Trim(jsonString)) = 0 THEN Throws(EmptyInputError)
    ELSE LET parsedData == JSONparse(extractedJson(jsonString)) IN
         IF ~parsedData.ok THEN Throws(ParseError)
         ELSE FieldLoop(Fields(shapeDescriptor), parsedData.v, <<>>)

----------------------------------------------------------------------------
(* processOutput: the shapes and texts it is called with *)

\* The kinds a field is declared with, and a kind the switch does not know.
Kinds == {"string", "number", "boolean", "object", "array"}
UnknownKind == "date"

\* The shapes: none, one field a of every kind, a field a of every kind
\* followed by a field b that is a number or a string, and a field b followed
\* by a field whose name is an array index, and a field with a name that
\* Object.prototype defines.
OutShapes ==
    {EmptyShape}
        \cup {<<Field("a", k, "A")>> : k \in Kinds \cup {UnknownKind}}
        \cup {<<Field("a", k[1], "A"), Field("b", k[2], "B")>> :
                k \in Kinds \X {"number", "string"}}
        \cup {<<Field("b", "number", "B"), Field("1", "string", "One")>>}
        \cup {<<Field("constructor", "object", "C")>>}

\* JSON texts: a string, a member of an object, an object.
StringText(chars) == <<Quote>> \o chars \o <<Quote>>
MemberText(name, valueText) == <<Quote, name, Quote, ":">> \o valueText
ObjectText(memberTexts) == <<"{">> \o JoinTexts(memberTexts, <<",">>) \o <<"}">>

\* A member the object does not have.
Absent == <<"<absent>">>

\* The values the JSON object gives to field a, as JSON text.
ValuesOfA ==
    { <<"1", "2", "3">>, <<"0">>, <<"1">>, <<"-", "7">>,
      StringText(<<"4", "5", "6">>), StringText(<<"a", "b", "c">>), StringText(<<>>),
      StringText(<<" ", "7", " ">>),
      StringText(<<"t", "r", "u", "e">>), StringText(<<"F", "A", "L", "S", "E">>),
      StringText(<<"T", "r", "u", "e">>), StringText(<<"1">>),
      StringText(<<"}", Fence>>),
      <<"t", "r", "u", "e">>, <<"f", "a", "l", "s", "e">>,
      <<"n", "u", "l", "l">>,
      <<"{", "}">>, ObjectText(<<MemberText("k", <<"1">>)>>),
      <<"[", "]">>, <<"[", "1", ",", "2", "]">> }

\* The values it gives to field b, and to a key c no shape declares.
ValuesOfB == { <<"5">>, StringText(<<"x">>), <<"n", "u", "l", "l">> }
ValuesOfC == { <<"9">> }

\* The members present, in the order a, b, c.
Members(a, b, c) ==
    (IF a = Absent THEN <<>> ELSE <<MemberText("a", a)>>)
        \o (IF b = Absent THEN <<>> ELSE <<MemberText("b", b)>>)
        \o (IF c = Absent THEN <<>> ELSE <<MemberText("c", c)>>)

\* The JSON object texts.
ObjectDocs ==
    { ObjectText(Members(v[1], v[2], v[3])) :
        v \in (ValuesOfA \cup {Absent}) \X (ValuesOfB \cup {Absent}) \X (ValuesOfC \cup {Absent}) }

\* Texts that are not a JSON object: other JSON values, a trailing comma, prose,
\* nothing, white space.
Prose == <<"h", "i">>
OtherDocs ==
    { <<"n", "u", "l", "l">>, <<"5">>, StringText(<<"s">>), <<"[", "1", "]">>,
      <<"{">> \o MemberText("a", <<"1">>) \o <<",", "}">>,
      Prose, <<>>, <<" ", "\n">> }

\* The ways a JSON object text reaches processOutput: as it is, with white
\* space around it, in a json fence with line breaks, in a fence with the tag
\* in capitals and no line breaks, in a fence with prose before and after, and
\* in a fence with two line breaks on either side.
Styles == {"direct", "padded", "fenced", "tight", "prose", "wide"}
Wrap(style, doc) ==
    CASE style = "direct" -> doc
      [] style = "padded" -> <<" ", "\n">> \o doc \o <<"\n", " ">>
      [] style = "fenced" -> <<Fence, "j", "s", "o", "n", "\n">> \o doc \o <<"\n", Fence>>
      [] style = "tight" -> <<Fence, "J", "S", "O", "N">> \o doc \o <<Fence>>
      [] style = "prose" ->
            <<" ">> \o Prose \o <<"\n", Fence, "j", "s", "o", "n", "\n">> \o doc
                \o <<"\n", Fence, "\n", " ">> \o Prose \o <<" ">>
      [] style = "wide" ->
            <<Fence, "j", "s", "o", "n", "\n", "\n">> \o doc \o <<"\n", "\n", Fence>>

\* The (text, style) pairs of the calls.
Inputs == (ObjectDocs \X Styles) \cup (OtherDocs \X {"direct"})

----------------------------------------------------------------------------
(* processOutput, step by step *)

\* throw new Error(...)
Throw(error) ==
    /\ oPc' = "thrown"
    /\ oThrown' = error

\* The argument checks, the other way round: the text is looked at first.
checkArgumentsTextFirst ==
    /\ oPc = "start"
    /\ IF Len(oText) = 0 \/ Len(Trim(oText)) = 0
       THEN Throw(EmptyInputError) /\ UNCHANGED oJson
       ELSE IF Len(oShape) = 0
       THEN Throw(EmptyShapeError) /\ UNCHANGED oJson
       ELSE /\ oJson' = Trim(oText)
            /\ oPc' = "extract"
            /\ UNCHANGED oThrown
    /\ UNCHANGED <<oShape, oText, oDoc, oParsed, oIdx, oResult>>
    /\ UNCHANGED <<agentVars, executeVars>>

\* Lines 17-24: the two argument checks, then the trim.
checkArguments ==
    /\ oPc = "start"
    /\ IF Len(oShape) = 0
       THEN Throw(EmptyShapeError) /\ UNCHANGED oJson
       ELSE IF Len(oText) = 0 \/ Len(Trim(oText)) = 0
       THEN Throw(EmptyInputError) /\ UNCHANGED oJson
       ELSE /\ oJson' = Trim(oText)
            /\ oPc' = "extract"
            /\ UNCHANGED oThrown
    /\ UNCHANGED <<oShape, oText, oDoc, oParsed, oIdx, oResult>>
    /\ UNCHANGED <<agentVars, executeVars>>

\* Lines 27-38: the fenced block, when there is one, is the candidate.
extractJson ==
    /\ oPc = "extract"
    /\ oJson' = extractedJson(oText)
    /\ oPc' = "parse"
    /\ UNCHANGED <<oShape, oText, oDoc, oParsed, oIdx, oResult, oThrown>>
    /\ UNCHANGED <<agentVars, executeVars>>

\* The result begun as a copy of the parsed object.
copyOfParsed(parsedData) ==
    IF parsedData.kind # "object" THEN <<>>
    ELSE [i \in 1..Len(parsedData.items) |->
            [name |-> parsedData.items[i].name[1], value |-> parsedData.items[i].value]]

\* Line 47: const result = {}
newResult(parsedData) == <<>>

\* The fields taken from the last to the first.
nextFieldReversed(shape, passed) == Len(shape) - passed

\* Line 49: for (const key in shapeDescriptor): the position, in the shape,
\* of the field visited after those passed.
nextField(shape, passed) == ForIn(shape)[passed + 1]

\* Lines 40-47: JSON.parse, its error rethrown as the parse error; the empty
\* result.
parseJson ==
    /\ oPc = "parse"
    /\ LET parsedData == JSONparse(oJson) IN
        IF parsedData.ok
        THEN /\ oParsed' = parsedData.v
             /\ oResult' = newResult(parsedData.v)
             /\ oPc' = "fields"
             /\ UNCHANGED oThrown
        ELSE Throw(ParseError) /\ UNCHANGED <<oParsed, oResult>>
    /\ UNCHANGED <<oShape, oText, oDoc, oJson, oIdx>>
    /\ UNCHANGED <<agentVars, executeVars>>

\* Lines 49-119: the loop body for the next field of the shape.
checkField ==
    /\ oPc = "fields"
    /\ oIdx < Len(oShape)
    /\ LET descriptor == oShape[nextField(oShape, oIdx)]
           step == FieldStep(descriptor, oParsed)
       IN  IF step.thrown # NoThrow
           THEN Throw(step.thrown) /\ UNCHANGED <<oIdx, oResult>>
           ELSE /\ oResult' = SetProperty(oResult, descriptor.name, step.v)
                /\ oIdx' = oIdx + 1
                /\ UNCHANGED <<oPc, oThrown>>
    /\ UNCHANGED <<oShape, oText, oDoc, oJson, oParsed>>
    /\ UNCHANGED <<agentVars, executeVars>>

\* Line 123: return result.
returnResult ==
    /\ oPc = "fields"
    /\ oIdx = Len(oShape)
    /\ oPc' = "returned"
    /\ UNCHANGED <<oShape, oText, oDoc, oJson, oParsed, oIdx, oResult, oThrown>>
    /\ UNCHANGED <<agentVars, executeVars>>

\* A call of processOutput with a shape and a text; no agent is involved.
InitOutput ==
    /\ oShape \in OutShapes
    /\ \E input \in Inputs :
        /\ oDoc = input[1]
        /\ oText = Wrap(input[2], input[1])
    /\ oPc = "start"
    /\ oJson = <<>>
    /\ oParsed = JUndefined
    /\ oIdx = 0
    /\ oResult = <<>>
    /\ oThrown = NoThrow
    /\ providers = <<>>
    /\ outputShape = Null
    /\ settings = [endPromptString |-> DefaultEndPromptString]
    /\ thrown = NoError
    /\ last = NoCall
    /\ rPhase = "idle"
    /\ rSel = <<>>
    /\ rInvoked = 0
    /\ rResults = <<>>
    /\ rOutcome = <<>>
    /\ rCompleted = <<>>
    /\ rRet = None
    /\ ExecuteIdle

NextOutput ==
    \/ checkArguments
    \/ extractJson
    \/ parseJson
    \/ checkField
    \/ returnResult

SpecOutput == InitOutput /\ [][NextOutput]_vars

----------------------------------------------------------------------------
(* Properties of processOutput *)

\* The call has returned or thrown.
OutputDone == oPc \in {"returned", "thrown"}

\* The text is empty or white space only.
Blank(text) == \A i \in 1..Len(text) : IsSpace(text[i])

\* C11: with a shape without fields processOutput throws the empty-shape
\* error whatever the text, an empty or blank one too; with a shape that has
\* fields and an empty or blank text it throws the empty-input error.
C11_ArgumentChecks ==
    OutputDone =>
        /\ Len(oShape) = 0 => (oPc = "thrown" /\ oThrown = EmptyShapeError)
        /\ (Len(oShape) > 0 /\ Blank(oText)) =>
                (oPc = "thrown" /\ oThrown = EmptyInputError)

\* C11's case: the call with a shape without fields and a blank text has
\* thrown the empty-shape error.
C11_Witness ==
    /\ oPc = "thrown"
    /\ Len(oShape) = 0
    /\ Len(oText) > 0
    /\ Blank(oText)
    /\ oThrown = EmptyShapeError

\* The outcome of the finished call: the error kind thrown, or the record
\* returned.
Outcome == [kind |-> oThrown.kind, record |-> IF oPc = "returned" THEN oResult ELSE <<>>]

\* The outcome of processOutput(shape, text) as a function of its arguments.
OutcomeOf(shape, text) ==
    LET r == processOutput(shape, text) IN [kind |-> r.thrown.kind, record |-> r.result]

\* The text of the call is the JSON object text of oDoc in a json fence,
\* alone or with prose before and after the fence.
InFence == oText \in {Wrap("fenced", oDoc), Wrap("prose", oDoc)}

\* C12: with a shape that has fields, processOutput applied to a JSON object
\* text in a json fence, alone or with prose around the fence, ends as
\* processOutput applied to that text directly does: with the same record
\* or with an error of the same kind.
C12_FencedSameAsDirect ==
    (OutputDone /\ Len(oShape) > 0 /\ oDoc \in ObjectDocs /\ InFence) =>
        Outcome = OutcomeOf(oShape, oDoc)

\* C12's case: a fenced JSON object text has given the record the text
\* itself gives.
C12_Witness ==
    /\ oPc = "returned"
    /\ oDoc \in ObjectDocs
    /\ InFence
    /\ Len(oResult) > 0
    /\ Outcome = OutcomeOf(oShape, oDoc)

\* JSON.parse has given a value whose properties can be read.
Parsed == OutputDone /\ oParsed.kind \notin {"undefined", "null"}

\* Reading the declared field off the parsed value gives undefined or null:
\* the value has no member of that name and inherits none, or a null one.
MissingIn(descriptor) ==
    Property(oParsed, NameChars(descriptor.name)).kind \in {"undefined", "null"}

\* The positions, in the shape, of the fields the parsed value fails on.
Offending ==
    {i \in 1..Len(oShape) :
        MissingIn(oShape[i]) \/ FieldStep(oShape[i], oParsed).thrown # NoThrow}

\* The first of a non-empty set of positions.
First(positions) == CHOOSE i \in positions : \A j \in positions : i <= j

\* The parsed value has no member of the field's name, or a null one.
AbsentOrNull(descriptor) ==
    \/ ~HasOwn(oParsed, NameChars(descriptor.name))
    \/ Property(oParsed, NameChars(descriptor.name)).kind = "null"

\* The error thrown is the one for the field at this position of the shape:
\* the missing-key error naming it when the field is missing.
ReportsField(position, missing) ==
    LET field == oShape[position] IN
    /\ oPc = "thrown"
    /\ oThrown.key = field.name
    /\ missing <=> oThrown = MissingKey(field.name)

FirstVisited ==
    LET order == ForIn(oShape)
        at == First({k \in 1..Len(order) : order[k] \in Offending})
    IN  order[at]

ValueOf(descriptor) == Property(oParsed, NameChars(descriptor.name))
InResult(descriptor) == \E i \in 1..Len(oResult) : oResult[i].name = descriptor.name
ResultOf(descriptor) ==
    oResult[CHOOSE i \in 1..Len(oResult) : oResult[i].name = descriptor.name].value

\* The declared fields of a kind.
Declared(kind) == {i \in 1..Len(oShape) : oShape[i].type = kind}

\* The call has thrown an error that names the field.
ThrownFor(descriptor) == oPc = "thrown" /\ oThrown.key = descriptor.name

TrueText == <<"t", "r", "u", "e">>
FalseText == <<"f", "a", "l", "s", "e">>

VisitedFirst(i) == Len(oShape) > 0 /\ ForIn(oShape)[1] = i

\* The only errors that name the field: the missing-key error when its value
\* is absent or null, the type mismatch otherwise.
MissingOrMismatch(field) ==
    ThrownFor(field) =>
        oThrown = IF MissingIn(field) THEN MissingKey(field.name)
                  ELSE TypeMismatch(field.name)

\* A value that a field declared as a number does not take: a string that
\* Number() turns into NaN, a boolean, an object, an array.
NotNumeric(value) ==
    \/ value.kind \in {"boolean", "object", "array"}
    \/ value.kind = "string" /\ Number(value.s) = NaN

\* C15: for a field declared with kind number, a number is stored unchanged
\* and a string is stored as the number it denotes (a string of digits is the
\* decimal text of the number stored, white space around it aside); the
\* type mismatch is thrown for a string that converts to no number and for a
\* boolean, an object and an array, and for nothing else.
C15_NumberField ==
    \A i \in Declared("number") :
        LET field == oShape[i]
            value == ValueOf(field)
            num == ResultOf(field)
        IN  /\ MissingOrMismatch(field)
            /\ (ThrownFor(field) /\ ~MissingIn(field)) => NotNumeric(value)
            /\ (Parsed /\ VisitedFirst(i) /\ NotNumeric(value)) =>
                    (ThrownFor(field) /\ oThrown = TypeMismatch(field.name))
            /\ (oPc = "returned" /\ Len(oShape) > 0) => InResult(field)
            /\ InResult(field) =>
                /\ num.kind = "number"
                /\ value.kind \in {"number", "string"}
                /\ value.kind = "number" => num = value
                /\ value.kind = "string" =>
                    /\ Number(value.s) = Finite(num.n)
                    /\ AllDigits(Trim(value.s)) => NumberToString(num.n) = Trim(value.s)

\* C15's case: a field declared as a number was given the string 456 and
\* the call has returned, the result holding the number 456.
C15_Witness ==
    /\ oPc = "returned"
    /\ 1 \in Declared("number")
    /\ ValueOf(oShape[1]) = JString(<<"4", "5", "6">>)
    /\ ResultOf(oShape[1]) = JNumber(456)

\* A string that is true or false written in any letter case.
NamesBoolean(chars) ==
    /\ Len(chars) \in {4, 5}
    /\ \E word \in {TrueText, FalseText} :
        /\ Len(word) = Len(chars)
        /\ \A k \in 1..Len(word) :
              chars[k] = word[k] \/ LowerChar(chars[k]) = word[k]

\* A value that a field declared as a boolean does not take.
NotBoolean(value) ==
    \/ value.kind \in {"number", "object", "array"}
    \/ value.kind = "string" /\ ~NamesBoolean(value.s)

\* C16: for a field declared with kind boolean, a boolean is stored
\* unchanged and a string that is true or false in any letter case is stored
\* as that boolean; the type mismatch is thrown for every other string and for
\* a number (0 and 1 too), an object and an array, and for nothing else.
C16_BooleanField ==
    \A i \in Declared("boolean") :
        LET field == oShape[i]
            value == ValueOf(field)
            bool == ResultOf(field)
        IN  /\ MissingOrMismatch(field)
            /\ (ThrownFor(field) /\ ~MissingIn(field)) => NotBoolean(value)
            /\ (Parsed /\ VisitedFirst(i) /\ NotBoolean(value)) =>
                    (ThrownFor(field) /\ oThrown = TypeMismatch(field.name))
            /\ (oPc = "returned" /\ Len(oShape) > 0) => InResult(field)
            /\ InResult(field) =>
                /\ bool.kind = "boolean"
                /\ value.kind \in {"boolean", "string"}
                /\ value.kind = "boolean" => bool = value
                /\ value.kind = "string" =>
                    /\ Len(value.s) = 4 => bool = JBoolean(TRUE)
                    /\ Len(value.s) = 5 => bool = JBoolean(FALSE)

\* C16's case: a field declared as a boolean was given the string FALSE in
\* capitals and the call has returned, the result holding false.
C16_Witness ==
    /\ oPc = "returned"
    /\ 1 \in Declared("boolean")
    /\ ValueOf(oShape[1]) = JString(<<"F", "A", "L", "S", "E">>)
    /\ ResultOf(oShape[1]) = JBoolean(FALSE)

\* C17: a field declared with kind object takes a structured value that is
\* neither null nor an array and nothing else, a field declared with kind
\* array takes an array and nothing else; a string, a number, a boolean, and
\* an array for an object or an object for an array, are a type mismatch.
\* What is taken is stored as it was parsed, whatever it holds.
C17_StructuralKinds ==
    \A kind \in {"object", "array"} :
        \A i \in Declared(kind) :
            LET field == oShape[i]
                value == ValueOf(field)
            IN  /\ MissingOrMismatch(field)
                /\ (ThrownFor(field) /\ ~MissingIn(field)) => value.kind # kind
                /\ (Parsed /\ VisitedFirst(i) /\ ~MissingIn(field) /\ value.kind # kind) =>
                        (ThrownFor(field) /\ oThrown = TypeMismatch(field.name))
                /\ (oPc = "returned" /\ Len(oShape) > 0) => InResult(field)
                /\ InResult(field) =>
                    /\ value.kind = kind
                    /\ ResultOf(field) = value

\* C17's case: a field declared as an object was given an array and the
\* type mismatch naming it has been thrown.
C17_Witness ==
    /\ 1 \in Declared("object")
    /\ ValueOf(oShape[1]).kind = "array"
    /\ Len(ValueOf(oShape[1]).items) > 0
    /\ oThrown = TypeMismatch(oShape[1].name)

\* The keys of the result, and the names the shape declares.
ResultKeys == {oResult[i].name : i \in 1..Len(oResult)}
DeclaredNames == {oShape[i].name : i \in 1..Len(oShape)}

\* The parsed object has a member no field of the shape declares.
HasUndeclared ==
    /\ oParsed.kind = "object"
    /\ \E k \in 1..Len(oParsed.items) :
          \A i \in 1..Len(oShape) : oParsed.items[k].name # NameChars(oShape[i].name)

\* C18: when processOutput returns, the keys of the record are the declared
\* fields, each once, and no others; a key of the parsed object that the
\* shape does not declare is in the record at no point of the call.
C18_ExactKeys ==
    /\ ResultKeys \subseteq DeclaredNames
    /\ oPc = "returned" =>
        /\ ResultKeys = DeclaredNames
        /\ Len(oResult) = Len(oShape)

\* C18's case: the parsed object has a key the shape does not declare and
\* the call has returned a record with the two declared fields.
C18_Witness ==
    /\ oPc = "returned"
    /\ HasUndeclared
    /\ Len(oShape) = 2
    /\ ResultKeys = DeclaredNames

----------------------------------------------------------------------------
(* Actions: the objects registered with an agent *)

\* At most this many actions are registered at a time, and at most this many
\* calls change the actions Map while a run of execute() is in flight.
MaxActions == 3
MaxChanges == 1

\* The order field of an action: a number, or not there.
NoOrder == [defined |-> FALSE, n |-> 0]
Order(n) == [defined |-> TRUE, n |-> n]

\* An Action object: key, enabled ("true", "false" or not there), order, and
\* the name of its execute function. An object is either one of its own or
\* (shared) the replyAction object of the module itself.
Action(key, enabled, order, operation) ==
    [key |-> key, enabled |-> enabled, order |-> order, operation |-> operation,
     shared |-> FALSE]

\* src/actions: the default reply action and the action that logs its
\* parameters.
replyAction == Action("reply", "true", Order(0), "reply")
logParamsAction == Action("logParams", "true", Order(0), "logParams")

\* Actions of a user: one that runs before the default ones and leaves enabled
\* out, one without an order that is declared disabled.
EarlyAction == Action("early", Undefined, Order(0 - 1), "early")
PlainAction == Action("plain", "false", NoOrder, "plain")

\* The (action, key) arguments of addAction and setAction.
ActionRegistrations ==
    { <<replyAction, Undefined>>, <<replyAction, "x">>, <<logParamsAction, Undefined>>,
      <<EarlyAction, Undefined>>, <<PlainAction, Undefined>> }

\* The keys deleteAction and toggleAction are called with.
ActionMapKeys == {"reply", "x", "logParams", "early", "plain"}

\* The object an argument names when the call is made: replyAction is the
\* object of the module, with the enabled it has by then.
argument(action) ==
    IF action = replyAction THEN [action EXCEPT !.enabled = replyEnabled] ELSE action

\* { ...action, enabled: action.enabled ?? true }: a new object.
withEnabled(action) ==
    [action EXCEPT !.enabled = IF action.enabled = Undefined THEN "true" ELSE action.enabled,
                   !.shared = FALSE]

\* The object the constructor stores: replyAction itself, not a copy.
sameObject(action) == [action EXCEPT !.shared = TRUE]

\* constructor: this.actions.set(replyAction.key, replyAction)
InitialActions == <<[key |-> replyAction.key, value |-> sameObject(replyAction)]>>

\* The actions Map is changed between runs, or during one while changes
\* are left.
MayChange == xPc = "idle" \/ (xPc = "awaiting" /\ xChanges < MaxChanges)
CountChange == xChanges' = IF xPc = "idle" THEN xChanges ELSE xChanges + 1

\* addAction(action, key): throws, changing nothing, when the key is taken.
addAction ==
    /\ MayChange
    /\ \E registration \in ActionRegistrations :
        LET action == argument(registration[1])
            actionKey == IF registration[2] # Undefined THEN registration[2] ELSE action.key
        IN  IF MapHas(actions, actionKey)
            THEN UNCHANGED <<actions, xChanges>>
            ELSE /\ Len(actions) < MaxActions
                 /\ actions' = MapSet(actions, actionKey, withEnabled(action))
                 /\ CountChange
    /\ UNCHANGED <<xPc, xQueue, xIdx, xResults, xStart, xLog>>
    /\ UNCHANGED <<xProviders, replyEnabled, replyVars>>
    /\ UNCHANGED <<agentVars, outputVars>>

\* setAction(action, key): an action under the key is replaced, in its place.
setAction ==
    /\ MayChange
    /\ \E registration \in ActionRegistrations :
        LET action == argument(registration[1])
            actionKey == IF registration[2] # Undefined THEN registration[2] ELSE action.key
        IN  /\ MapHas(actions, actionKey) \/ Len(actions) < MaxActions
            /\ actions' = MapSet(actions, actionKey, withEnabled(action))
    /\ CountChange
    /\ UNCHANGED <<xPc, xQueue, xIdx, xResults, xStart, xLog>>
    /\ UNCHANGED <<xProviders, replyEnabled, replyVars>>
    /\ UNCHANGED <<agentVars, outputVars>>

\* deleteAction(key): nothing happens when no action is under the key.
deleteAction ==
    /\ MayChange
    /\ \E key \in ActionMapKeys :
        IF ~MapHas(actions, key)
        THEN UNCHANGED <<actions, xChanges>>
        ELSE actions' = MapDelete(actions, key) /\ CountChange
    /\ UNCHANGED <<xPc, xQueue, xIdx, xResults, xStart, xLog>>
    /\ UNCHANGED <<xProviders, replyEnabled, replyVars>>
    /\ UNCHANGED <<agentVars, outputVars>>

\* toggleAction(key, enabled): throws, changing nothing, when no action is
\* under the key. action.enabled = enabled is an assignment to the object
\* the Map holds: when that is replyAction itself, to the object of the module.
toggleAction ==
    /\ MayChange
    /\ \E key \in ActionMapKeys, enabled \in {"true", "false"} :
        IF ~MapHas(actions, key)
        THEN UNCHANGED <<actions, xChanges, replyEnabled>>
        ELSE /\ actions' = MapSet(actions, key,
                                  [MapGet(actions, key) EXCEPT !.enabled = enabled])
             /\ replyEnabled' = IF MapGet(actions, key).shared THEN enabled ELSE replyEnabled
             /\ CountChange
    /\ UNCHANGED <<xPc, xQueue, xIdx, xResults, xStart, xLog>>
    /\ UNCHANGED <<xProviders, replyVars>>
    /\ UNCHANGED <<agentVars, outputVars>>

----------------------------------------------------------------------------
(* execute() *)

\* The comparator of the sort: (a, b) => (a.order ?? 0) - (b.order ?? 0).
orderOrZero(action) == IF action.order.defined THEN action.order.n ELSE 0
byActionOrder(a, b) == orderOrZero(a) - orderOrZero(b)

\* x put into a sorted array behind every element that does not compare
\* greater: the sort is stable.
RECURSIVE InsertAction(_, _)
InsertAction(sorted, x) ==
    IF Len(sorted) = 0 THEN <<x>>
    ELSE IF byActionOrder(sorted[Len(sorted)].action, x.action) > 0
         THEN Append(InsertAction(SubSeq(sorted, 1, Len(sorted) - 1), x),
                     sorted[Len(sorted)])
         ELSE Append(sorted, x)

SortActions(array) ==
    LET S[i \in 0..Len(array)] ==
            IF i = 0 THEN <<>> ELSE InsertAction(S[i - 1], array[i])
    IN S[Len(array)]

\* Array.from(this.actions.values()), each action with its place in the Map.
ActionValues(entries) ==
    [i \in 1..Len(entries) |-> [at |-> i, action |-> entries[i].value]]

\* Every registered action in the order of the Map, enabled or not.
registeredActions(entries) == ActionValues(entries)

\* Array.from(this.actions.values()).filter(action => action.enabled).sort(...)
enabledActions(entries) ==
    SortActions(SelectSeq(ActionValues(entries), LAMBDA e : e.action.enabled = "true"))

\* What is stored in actionResults: the result of the operation, or the
\* error descriptor { error: "Action failed: ..." }.
ActionResult(operation) == [error |-> FALSE, v |-> <<"result of", operation>>]
ErrorDescriptor(operation) ==
    [error |-> TRUE, v |-> <<"Action failed: ", "error of", operation>>]

\* The operations that can fail: logParams only logs and returns true.
CanFail(operation) == operation # "logParams"

\* What a failed operation does to the run: the error leaves execute().
failRun(actionResults, action) == [failed |-> TRUE, actionResults |-> actionResults]

\* catch (error) { actionResults[action.key] = { error: ... } }
catchActionError(actionResults, action) ==
    [failed |-> FALSE,
     actionResults |-> SetProperty(actionResults, action.key, ErrorDescriptor(action.operation))]

\* The entries of the log: an operation was invoked, fulfilled or rejected;
\* at is the place of its action in the Map when execute() started.
Invoked(e) == [event |-> "invoke", at |-> e.at, key |-> e.action.key]
Fulfilled(e) == [event |-> "fulfil", at |-> e.at, key |-> e.action.key]
Rejected(e) == [event |-> "reject", at |-> e.at, key |-> e.action.key]

\* After the action at place passed + 1 of the queue: the loop invokes the
\* next operation and awaits it, or is over and execute() returns.
Advance(settled) ==
    /\ xIdx' = xIdx + 1
    /\ IF xIdx + 1 < Len(xQueue)
       THEN /\ xPc' = "awaiting"
            /\ xLog' = xLog \o <<settled, Invoked(xQueue[xIdx + 2])>>
       ELSE /\ xPc' = "returned"
            /\ xLog' = Append(xLog, settled)

\* execute(), up to its first await: the enabled actions are selected and
\* sorted, and the operation of the first is invoked.
execute ==
    /\ xPc = "idle"
    /\ LET queue == enabledActions(actions) IN
        /\ xQueue' = queue
        /\ xStart' = actions
        /\ xProviders' = providers
        /\ xIdx' = 0
        /\ xResults' = <<>>
        /\ IF Len(queue) = 0
           THEN xPc' = "returned" /\ xLog' = <<>>
           ELSE xPc' = "awaiting" /\ xLog' = <<Invoked(queue[1])>>
    /\ UNCHANGED <<actions, xChanges, replyEnabled, replyVars>>
    /\ UNCHANGED <<agentVars, outputVars>>

\* The awaited operation is fulfilled: its result is stored under action.key
\* and the loop goes on.
operationFulfils ==
    /\ xPc = "awaiting"
    /\ LET e == xQueue[xIdx + 1] IN
        /\ xResults' = SetProperty(xResults, e.action.key, ActionResult(e.action.operation))
        /\ Advance(Fulfilled(e))
    /\ UNCHANGED <<actions, xQueue, xStart, xChanges>>
    /\ UNCHANGED <<xProviders, replyEnabled, replyVars>>
    /\ UNCHANGED <<agentVars, outputVars>>

\* The awaited operation is rejected: the catch block stores the error
\* descriptor under action.key and the loop goes on.
operationRejects ==
    /\ xPc = "awaiting"
    /\ LET e == xQueue[xIdx + 1]
           caught == catchActionError(xResults, e.action)
       IN  /\ CanFail(e.action.operation)
           /\ xResults' = caught.actionResults
           /\ IF caught.failed
              THEN /\ xPc' = "failed"
                   /\ xLog' = Append(xLog, Rejected(e))
                   /\ UNCHANGED xIdx
              ELSE Advance(Rejected(e))
    /\ UNCHANGED <<actions, xQueue, xStart, xChanges>>
    /\ UNCHANGED <<xProviders, replyEnabled, replyVars>>
    /\ UNCHANGED <<agentVars, outputVars>>

\* An agent as its constructor leaves it; no provider is registered and no
\* text is processed.
InitExecute ==
    /\ actions = InitialActions
    /\ xPc = "idle"
    /\ xQueue = <<>>
    /\ xIdx = 0
    /\ xResults = <<>>
    /\ xStart = <<>>
    /\ xLog = <<>>
    /\ xChanges = 0
    /\ xProviders = <<>>
    /\ replyEnabled = "true"
    /\ ReplyIdle
    /\ providers = <<>>
    /\ outputShape = Null
    /\ settings = [endPromptString |-> DefaultEndPromptString]
    /\ thrown = NoError
    /\ last = NoCall
    /\ rPhase = "idle"
    /\ rSel = <<>>
    /\ rInvoked = 0
    /\ rResults = <<>>
    /\ rOutcome = <<>>
    /\ rCompleted = <<>>
    /\ rRet = None
    /\ OutputIdle

NextExecute ==
    \/ addAction
    \/ setAction
    \/ deleteAction
    \/ toggleAction
    \/ execute
    \/ operationFulfils
    \/ operationRejects

SpecExecute == InitExecute /\ [][NextExecute]_vars

----------------------------------------------------------------------------
(* Properties of execute() *)

\* A run of execute() has started.
Started == xPc # "idle"

\* The places, in the Map as it was when execute() started, of the actions
\* that were enabled then.
EnabledAtStart == {i \in 1..Len(xStart) : xStart[i].value.enabled = "true"}

\* The places of the log where an operation was invoked, and where one was
\* fulfilled or rejected.
Invocations == {k \in 1..Len(xLog) : xLog[k].event = "invoke"}
Settlements == {k \in 1..Len(xLog) : xLog[k].event \in {"fulfil", "reject"}}

\* The action at a place of the Map when execute() started, and its order.
StartAction(at) == xStart[at].value
StartOrder(at) == IF StartAction(at).order.defined THEN StartAction(at).order.n ELSE 0

\* The action at place a of the Map runs before the one at place b: its
\* order is less, or they tie and it was registered first.
RunsBefore(a, b) ==
    \/ StartOrder(a) < StartOrder(b)
    \/ StartOrder(a) = StartOrder(b) /\ a < b

\* C19: a run of execute() invokes only actions that were enabled when it
\* started, each at most once and all of them by the time it returns,
\* whatever was done to the actions Map meanwhile; they are invoked in
\* ascending order, ties in the order of the Map; and an operation is
\* invoked only when every operation invoked before it has been fulfilled or
\* rejected.
C19_EnabledInOrderOneByOne ==
    Started =>
        /\ \A k \in Invocations : xLog[k].at \in EnabledAtStart
        /\ \A j, k \in Invocations : j < k => RunsBefore(xLog[j].at, xLog[k].at)
        /\ xPc = "returned" => {xLog[k].at : k \in Invocations} = EnabledAtStart
        /\ \A k \in Invocations :
              \A j \in Invocations :
                j < k => \E m \in Settlements : j < m /\ m < k /\ xLog[m].at = xLog[j].at

\* C19's case: the run has returned after two operations whose actions tie
\* on order, an action that was disabled at the start was passed over, and
\* the actions Map was changed during the run.
C19_Witness ==
    /\ xPc = "returned"
    /\ actions # xStart
    /\ \E i \in 1..Len(xStart) : i \notin EnabledAtStart
    /\ \E j, k \in Invocations :
          /\ j < k
          /\ StartOrder(xLog[j].at) = StartOrder(xLog[k].at)

\* The last place of the log where an operation of an action with this key
\* was fulfilled or rejected.
LastSettled(key) ==
    CHOOSE m \in Settlements :
        /\ xLog[m].key = key
        /\ \A n \in Settlements : xLog[n].key = key => n <= m

\* The keys of actionResults.
ActionResultKeys == {xResults[i].name : i \in 1..Len(xResults)}

----------------------------------------------------------------------------
(* Further properties of processOutput *)

\* The kinds of the six errors processOutput constructs itself.
SixErrorKinds ==
    { EmptyShapeError.kind, EmptyInputError.kind, ParseError.kind,
      MissingKey("a").kind, TypeMismatch("a").kind, UnknownType("a").kind }

\* C23: a call of processOutput ends with a record returned or with an error
\* of one of six kinds: empty shape, empty input, JSON parse, missing key,
\* type mismatch, unknown kind. No other failure arises, whatever the JSON
\* candidate parses to: an object, null, a number, a string, an array.
C23_SixErrorKinds ==
    OutputDone => (oPc = "returned" \/ oThrown.kind \in SixErrorKinds)

\* C23's case: the JSON candidate parsed to a value that is not an object, an
\* array, and the call has thrown one of the six errors.
C23_Witness ==
    /\ oPc = "thrown"
    /\ oParsed.kind = "array"
    /\ oThrown.kind \in SixErrorKinds

\* The JSON candidate has been chosen.
Extracted ==
    \/ oPc \in {"parse", "fields", "returned"}
    \/ oPc = "thrown" /\ oThrown \notin {EmptyShapeError, EmptyInputError}

\* The ways of writing a JSON object text in a block opened by a json fence
\* tag: one line break on either side, none and the tag in capitals, the
\* block within prose, two line breaks on either side.
FencedStyles == {"fenced", "tight", "prose", "wide"}

\* C24: when the text holds a JSON object in a block opened by a json fence
\* tag, in any letter case and with no, one or several line breaks between
\* the fence markers and the object, the JSON candidate is the object in
\* the block; when the text holds no such block the candidate is the trimmed
\* text.
C24_FencedContentIsCandidate ==
    (Extracted /\ oDoc \in ObjectDocs) =>
        /\ (\E style \in FencedStyles : oText = Wrap(style, oDoc)) => oJson = oDoc
        /\ (\E style \in Styles \ FencedStyles : oText = Wrap(style, oDoc)) =>
                oJson = Trim(oText)

\* C24's case: the object stood in a block with the tag in capitals and no
\* line break, and the candidate is the object.
C24_Witness ==
    /\ Extracted
    /\ oDoc \in ObjectDocs
    /\ oText = Wrap("tight", oDoc)
    /\ oJson = oDoc

\* The runtime kind of a value, as the declared kinds name them.
RuntimeKind(value) == value.kind

\* C28: when processOutput returns, every field of the result has the
\* runtime kind the shape declares for it: a string for string, a number for
\* number, a boolean for boolean, an object that is neither null nor an
\* array for object, an array for array.
C28_KindsAsDeclared ==
    oPc = "returned" =>
        \A i \in 1..Len(oShape) :
            /\ InResult(oShape[i])
            /\ RuntimeKind(ResultOf(oShape[i])) = oShape[i].type

\* C28's case: the call has returned a record with two fields, both of
\* them converted from values of another kind.
C28_Witness ==
    /\ oPc = "returned"
    /\ Len(oShape) = 2
    /\ \A i \in 1..2 : RuntimeKind(ValueOf(oShape[i])) # oShape[i].type

----------------------------------------------------------------------------
(* Further properties of the actions of an agent *)

\* An action is registered under the key reply.
HasReply == MapHas(actions, "reply")

\* C22 as stated: in every state an agent reaches from its construction by
\* addAction, setAction, deleteAction and toggleAction calls an action is
\* registered under the key reply.
C22_ReplyAlwaysPresent == HasReply

\* C22, amended: an action is registered under the key reply when the agent
\* is constructed, and the key stays taken through every call but
\* deleteAction("reply"): addAction, setAction and toggleAction never free it.
C22_ReplyUntilDeleted ==
    /\ HasReply
    /\ [][(HasReply /\ ~HasReply') => actions' = MapDelete(actions, "reply")]_vars

\* C22's case: three actions are registered, the one under reply among them,
\* added to, replaced and disabled by calls made since the construction.
C22_Witness ==
    /\ HasReply
    /\ Len(actions) = MaxActions
    /\ actions[1].key # "reply"
    /\ MapGet(actions, "reply").enabled = "false"

\* An entry of actionResults is that of the action at a place of the Map as
\* it was when execute() started: it stands under the key the action was
\* registered with, or under the key of the action itself, and holds the
\* result or the error descriptor of its operation.
EntryOf(entry, at) ==
    /\ entry.name \in {xStart[at].key, StartAction(at).key}
    /\ entry.value \in {ActionResult(StartAction(at).operation),
                        ErrorDescriptor(StartAction(at).operation)}

\* C25: the mapping execute() returns has one entry for each action that was
\* registered and enabled when it started, holding the result or the error
\* descriptor of that action, and no other entry; so also for an action
\* registered under a key given to addAction or setAction that is not its own.
C25_OneEntryPerEnabledAction ==
    xPc = "returned" =>
        /\ Len(xResults) = Cardinality(EnabledAtStart)
        /\ \A at \in EnabledAtStart :
              \E i \in 1..Len(xResults) : EntryOf(xResults[i], at)
        /\ \A i \in 1..Len(xResults) :
              \E at \in EnabledAtStart : EntryOf(xResults[i], at)

\* C25's case: the run has returned after the operations of two enabled
\* actions, each registered under its own key, and a disabled action was
\* registered too.
C25_Witness ==
    /\ xPc = "returned"
    /\ Cardinality(EnabledAtStart) = 2
    /\ Len(xStart) = 3
    /\ \A at \in 1..Len(xStart) : xStart[at].key = StartAction(at).key
    /\ Len(xResults) = 2

----------------------------------------------------------------------------
(* Further properties of the provider registry and the render *)

\* C27: setOutput called with a shape without fields throws the error of the
\* shape providers and changes nothing: the providers and the stored shape
\* are as before the call, so that a shape set earlier stays with both its
\* providers.
C27_EmptyShapeAtomic ==
    [][(last'.op = "setOutput" /\ last'.shape = GivenShape(EmptyShape)) =>
            /\ thrown' = EmptyShapeDescriptor
            /\ providers' = providers
            /\ outputShape' = outputShape]_vars

\* C27's case: setOutput was called with a shape without fields on an agent
\* that had a shape set, and the shape and its two providers are in place.
C27_Witness ==
    /\ last.op = "setOutput"
    /\ last.shape = GivenShape(EmptyShape)
    /\ thrown = EmptyShapeDescriptor
    /\ outputShape = ShapeRef(ShapeOne)
    /\ MapGet(providers, "outputShape") = outputProvider(ShapeOne, OutputOrder)
    /\ MapGet(providers, "outputReminder") = outputReminder(ShapeOne, OutputOrder)

\* The render under the scheduling of the event loop: the map callback goes
\* on to the next producer when it can, and the continuation of the await
\* runs once Promise.all has resolved. Nothing is assumed of the producers.
SpecLive ==
    /\ Init
    /\ [][Next]_vars
    /\ WF_vars(invokeProducer)
    /\ WF_vars(finishRender)

\* The producer of the i-th selected provider has been invoked and has not
\* settled.
Outstanding(i) == Rendering /\ i <= Len(rSel) /\ i <= rInvoked /\ rOutcome[i] = "pending"

\* Every producer that is invoked completes or fails in the end.
ProducersSettle == \A i \in 1..MaxProviders : []<>(~Outstanding(i))

\* C30: a render returns only when every selected producer has settled,
\* and, if every producer that is invoked completes or fails in the end, a
\* render in progress returns in the end.
C30_ReturnsWhenProducersSettle ==
    /\ [](Rendered => \A i \in 1..Len(rSel) : rOutcome[i] # "pending")
    /\ ProducersSettle => (Rendering ~> Rendered)

\* C30's case: a render of three producers has returned, the producer
\* invoked first having settled last.
C30_Witness ==
    /\ Rendered
    /\ Len(rSel) = MaxProviders
    /\ rCompleted[Len(rCompleted)] = 1

----------------------------------------------------------------------------
(* Two agents of one process *)

\* The actions Map of a second agent of the same process, constructed at any
\* time and never called: its one entry is the replyAction object of the
\* module, as that object is by now.
SecondAgentActions ==
    <<[key |-> replyAction.key, value |-> sameObject(argument(replyAction))]>>

\* What execute() selects on the second agent.
SecondAgentQueue == enabledActions(SecondAgentActions)

\* C29: the calls on one agent leave every other agent as it was: whatever
\* toggleAction, addAction, setAction, deleteAction and execute() do on the
\* first agent, a second agent of the same process has reply enabled and
\* execute() on it selects reply.
C29_AgentsIsolated ==
    /\ MapGet(SecondAgentActions, "reply").enabled = "true"
    /\ Len(SecondAgentQueue) = 1
    /\ SecondAgentQueue[1].action.key = "reply"

\* toggleAction("reply", false) was called on the first agent while its Map
\* held the object the constructor stored.
C29_Witness ==
    /\ MapHas(actions, "reply")
    /\ MapGet(actions, "reply").shared
    /\ MapGet(actions, "reply").enabled = "false"

----------------------------------------------------------------------------
(* replyAction.execute *)

\* The shapes an agent is given with setOutput before reply runs: those of
\* one field.
ReplyShapes == {shape \in OutShapes : Len(shape) = 1}

\* What the execute function returns: the text of the model, or a record.
RawText(text) == [kind |-> "text", text |-> text, record |-> <<>>]
Record(result) == [kind |-> "record", text |-> <<>>, record |-> result]

\* A catch block that throws the error of processOutput again.
rethrowProcessingError(raw) == [failed |-> TRUE, value |-> RawText(<<>>)]

\* Lines 25-29: catch (error) { ...; return rawResponse }
fallBackToRaw(raw) == [failed |-> FALSE, value |-> RawText(raw)]

\* Lines 16-18: system() and prompt() are awaited, then generateResponse,
\* which resolves to the text of the model.
replyGenerates ==
    /\ replyPc = "called"
    /\ \E input \in Inputs :
        /\ rawResponse' = Wrap(input[2], input[1])
        /\ oDoc' = input[1]
    /\ replyPc' = "generated"
    /\ UNCHANGED replyResult
    /\ UNCHANGED <<oShape, oText, oPc, oJson, oParsed, oIdx, oResult, oThrown>>
    /\ UNCHANGED <<actions, xPc, xQueue, xIdx, xResults, xStart, xLog, xChanges,
                   xProviders, replyEnabled>>
    /\ UNCHANGED agentVars

\* Line 18: generateResponse rejects (no API key, a model it does not know,
\* no text in the response); nothing catches it in the execute function.
replyGenerationFails ==
    /\ replyPc = "called"
    /\ replyPc' = "failed"
    /\ UNCHANGED <<rawResponse, replyResult>>
    /\ UNCHANGED <<actions, xPc, xQueue, xIdx, xResults, xStart, xLog, xChanges,
                   xProviders, replyEnabled>>
    /\ UNCHANGED <<agentVars, outputVars>>

\* Lines 20-22: without an output shape the text is returned as it is.
replyReturnsRaw ==
    /\ replyPc = "generated"
    /\ outputShape.isNull
    /\ replyResult' = RawText(rawResponse)
    /\ replyPc' = "returned"
    /\ UNCHANGED rawResponse
    /\ UNCHANGED <<actions, xPc, xQueue, xIdx, xResults, xStart, xLog, xChanges,
                   xProviders, replyEnabled>>
    /\ UNCHANGED <<agentVars, outputVars>>

\* Line 24: processOutput(agent.outputShape, rawResponse) is called.
replyCallsProcessOutput ==
    /\ replyPc = "generated"
    /\ ~outputShape.isNull
    /\ oShape' = outputShape.shape
    /\ oText' = rawResponse
    /\ oPc' = "start"
    /\ oJson' = <<>>
    /\ oParsed' = JUndefined
    /\ oIdx' = 0
    /\ oResult' = <<>>
    /\ oThrown' = NoThrow
    /\ replyPc' = "coercing"
    /\ UNCHANGED <<oDoc, rawResponse, replyResult>>
    /\ UNCHANGED <<actions, xPc, xQueue, xIdx, xResults, xStart, xLog, xChanges,
                   xProviders, replyEnabled>>
    /\ UNCHANGED agentVars

\* Lines 24-29: processOutput has returned, and its record is returned; or
\* it has thrown, and the catch block decides.
replySettles ==
    /\ replyPc = "coercing"
    /\ OutputDone
    /\ IF oPc = "returned"
       THEN /\ replyResult' = Record(oResult)
            /\ replyPc' = "returned"
       ELSE LET caught == fallBackToRaw(rawResponse) IN
            /\ replyResult' = caught.value
            /\ replyPc' = IF caught.failed THEN "failed" ELSE "returned"
    /\ UNCHANGED rawResponse
    /\ UNCHANGED <<actions, xPc, xQueue, xIdx, xResults, xStart, xLog, xChanges,
                   xProviders, replyEnabled>>
    /\ UNCHANGED <<agentVars, outputVars>>

\* An agent after its constructor and, for some, setOutput(shape); the execute
\* function of replyAction is called on it.
InitReply ==
    /\ \E shapeDescriptor \in {NoShape} \cup {GivenShape(shape) : shape \in ReplyShapes} :
        IF ~shapeDescriptor.given
        THEN /\ providers = <<[key |-> "prompt", value |-> promptProvider(InitialPrompt, "reply")]>>
             /\ outputShape = Null
        ELSE /\ providers =
                    <<[key |-> "prompt", value |-> promptProvider(InitialPrompt, "reply")],
                      [key |-> "outputShape",
                       value |-> outputProvider(shapeDescriptor.shape, OutputOrder)],
                      [key |-> "outputReminder",
                       value |-> outputReminder(shapeDescriptor.shape, OutputOrder)]>>
             /\ outputShape = ShapeRef(shapeDescriptor.shape)
    /\ settings = [endPromptString |-> DefaultEndPromptString]
    /\ thrown = NoError
    /\ last = NoCall
    /\ rPhase = "idle"
    /\ rSel = <<>>
    /\ rInvoked = 0
    /\ rResults = <<>>
    /\ rOutcome = <<>>
    /\ rCompleted = <<>>
    /\ rRet = None
    /\ OutputIdle
    /\ actions = InitialActions
    /\ xPc = "idle"
    /\ xQueue = <<>>
    /\ xIdx = 0
    /\ xResults = <<>>
    /\ xStart = <<>>
    /\ xLog = <<>>
    /\ xChanges = 0
    /\ xProviders = <<>>
    /\ replyEnabled = "true"
    /\ replyPc = "called"
    /\ rawResponse = <<>>
    /\ replyResult = <<>>

NextReply ==
    \/ replyGenerates
    \/ replyGenerationFails
    \/ replyReturnsRaw
    \/ replyCallsProcessOutput
    \/ checkArguments
    \/ extractJson
    \/ parseJson
    \/ checkField
    \/ returnResult
    \/ replySettles

SpecReply == InitReply /\ [][NextReply]_vars

\* C21: replyAction.execute does not fail because of the coercion: without
\* an output shape it returns the text of the model as it is; with one, the
\* record processOutput returns for the shape and the text or, when
\* processOutput throws whatever error, the text unchanged; and it fails
\* only before processOutput was called.
C21_ReplyNeverFailsOnCoercion ==
    /\ replyPc = "failed" => oPc = "idle"
    /\ replyPc = "returned" =>
            IF outputShape.isNull
            THEN replyResult = RawText(rawResponse)
            ELSE LET coerced == processOutput(outputShape.shape, rawResponse) IN
                 IF coerced.thrown = NoThrow
                 THEN replyResult = Record(coerced.result)
                 ELSE replyResult = RawText(rawResponse)

\* A shape is set and processOutput threw: the text of the model is returned.
C21_Witness ==
    /\ replyPc = "returned"
    /\ ~outputShape.isNull
    /\ oPc = "thrown"
    /\ oThrown = TypeMismatch("a")
    /\ replyResult = RawText(rawResponse)
    /\ Len(rawResponse) > 0

----------------------------------------------------------------------------
(* execute(): operations that change and render the providers *)

\* The actions Maps execute() is called with: the constructor's, the same
\* after addAction(EarlyAction), and after addAction(logParamsAction) too.
RunActions ==
    { InitialActions,
      MapSet(InitialActions, EarlyAction.key, withEnabled(EarlyAction)),
      MapSet(MapSet(InitialActions, EarlyAction.key, withEnabled(EarlyAction)),
             logParamsAction.key, withEnabled(logParamsAction)) }

\* What the operations of a user's actions register and delete.
RunRegistrations == {<<SystemSeed, Undefined>>, <<UserA, Undefined>>, <<PromptAgain, Undefined>>}
RunDeleteKeys == {"prompt", "a"}
RunShapeArgs == {NoShape, GivenShape(EmptyShape), GivenShape(ShapeOne)}

\* The operation execute() awaits.
Awaited == xQueue[xIdx + 1].action.operation

\* The awaited operation is a user's: it calls the agent it is given as it
\* likes.
UserOperation == xPc = "awaiting" /\ Awaited \in {EarlyAction.operation, PlainAction.operation}

\* The awaited operation is that of replyAction: agent.system(), agent.prompt().
ReplyOperation == xPc = "awaiting" /\ Awaited = replyAction.operation

\* An agent after its constructor and the addAction calls.
InitRun ==
    /\ providers = <<[key |-> "prompt", value |-> promptProvider(InitialPrompt, "reply")]>>
    /\ outputShape = Null
    /\ settings = [endPromptString |-> DefaultEndPromptString]
    /\ thrown = NoError
    /\ last = NoCall
    /\ rPhase = "idle"
    /\ rSel = <<>>
    /\ rInvoked = 0
    /\ rResults = <<>>
    /\ rOutcome = <<>>
    /\ rCompleted = <<>>
    /\ rRet = None
    /\ OutputIdle
    /\ actions \in RunActions
    /\ xPc = "idle"
    /\ xQueue = <<>>
    /\ xIdx = 0
    /\ xResults = <<>>
    /\ xStart = <<>>
    /\ xLog = <<>>
    /\ xChanges = 0
    /\ xProviders = <<>>
    /\ replyEnabled = "true"
    /\ ReplyIdle

\* A run of execute(): the operation of a user's action changes the
\* providers and renders, that of replyAction renders, and an operation
\* settles when no render of its own is in flight.
NextRun ==
    \/ execute
    \/ UserOperation /\ \E r \in RunRegistrations : addProvider(r[1], r[2])
    \/ UserOperation /\ \E r \in RunRegistrations : setProvider(r[1], r[2])
    \/ UserOperation /\ \E k \in RunDeleteKeys : deleteProvider(k)
    \/ UserOperation /\ \E s \in RunShapeArgs : setOutput(s)
    \/ UserOperation /\ \E fn \in {"prompt", "system"}, a \in ActionKeys : beginRender(fn, a)
    \/ ReplyOperation /\ \E fn \in {"prompt", "system"} : beginRender(fn, "reply")
    \/ invokeProducer
    \/ \E i \in 1..Len(rSel) : producerResolves(i)
    \/ \E i \in 1..Len(rSel) : producerRejects(i)
    \/ finishRender
    \/ completeRender
    \/ Quiescent /\ operationFulfils
    \/ Quiescent /\ operationRejects

SpecRun == InitRun /\ [][NextRun]_vars

\* The provider under a key of the Map is selected by the render in flight.
Applies(provider) ==
    /\ provider.type = last.op
    /\ provider.actionKey \in {Undefined, last.arg}

\* The Map held this provider when execute() started.
AtStart(provider) == \E pos \in 1..Len(xProviders) : xProviders[pos].value = provider

\* C26: a render made during a run of execute() works on the providers as
\* they are when it is called, not as they were when the run started: it
\* selects the providers the Map holds by then, under their keys, and no
\* other; and the text it returns holds the content of each selected provider
\* whose producer succeeded, also of those an earlier action of the run added
\* or put in the place of another.
C26_ReadsProvidersAtCallTime ==
    (xPc = "awaiting" /\ rPhase # "idle") =>
        /\ \A pos \in 1..Len(providers) :
            Applies(providers[pos].value) <=>
                \E i \in 1..Len(rSel) :
                    rSel[i].key = providers[pos].key /\ rSel[i].provider = providers[pos].value
        /\ \A i \in 1..Len(rSel) :
            /\ MapHas(providers, rSel[i].key)
            /\ MapGet(providers, rSel[i].key) = rSel[i].provider
        /\ Rendered => \A i \in Succeeded : Contains(rRet.v, ContentOf(i))

\* The first action of the run has changed the Map and settled; the operation
\* of replyAction has rendered, and the text holds the content of a provider
\* the Map did not hold when the run started, while one it held then is gone.
C26_Witness ==
    /\ ReplyOperation
    /\ xIdx >= 1
    /\ Rendered
    /\ \E i \in Succeeded : ~AtStart(rSel[i].provider) /\ Contains(rRet.v, ContentOf(i))
    /\ \E pos \in 1..Len(xProviders) : ~MapHas(providers, xProviders[pos].key)

====
